---- MODULE Spec2Model ----
(***************************************************************************)
(* Analysis orchestration engine: session store (Redis), reference         *)
(* preparation, performance-analysis pipeline and the server-sent event    *)
(* stream, for one session.                                                *)
(*                                                                         *)
(* Modelling conventions                                                   *)
(*  - the session store and the task result backend answer every request   *)
(*    (no Redis outage); inference, download and upload calls may fail;    *)
(*  - a field that is absent from the session JSON (or None) is NoVal;     *)
(*  - every await / network call of a handler is a separate step, so that  *)
(*    handlers, worker tasks and the stream interleave as they do in the   *)
(*    deployment.                                                          *)
(***************************************************************************)
EXTENDS Integers, Sequences, FiniteSets, TLC

NoVal == "none"

\* ------------------------------------------------------------------------
\* Bounds of the model (not program constants)
\* ------------------------------------------------------------------------
\* number of 500 ms polls after which a stream reaches MAX_DURATION
MaxPolls == 2
\* the same, for the stream that follows one run from its start to its end
ScenarioPolls == 5
\* number of polls between two heartbeats
HeartbeatPolls == 2
\* seconds of clock the merge specification lets pass
MaxClock == 2
\* recordings the client uploads in one session
MaxUploads == 1

\* how long a session is followed, in quarters of an hour
MaxQuarters == 14

\* payloads written to a cache, advances of the cache clock, runs of the reaper
MaxWrites == 2

MaxAdvances == 2

MaxReaperRuns == 1

\* ------------------------------------------------------------------------
\* Program constants
\* ------------------------------------------------------------------------
\* ARGV[2] of the Lua merge script
FALLBACK_TTL == 3600
\* TTL used by start_session
SESSION_TTL == 10800
\* TTL the pipeline error marker passes to SETEX
ERROR_MARK_TTL == 3600

\* fut_ref.result(timeout=300), fut_crepe_user.result(timeout=300)
CRITICAL_TIMEOUT == 300

\* fut_whisper.result(timeout=120), fut_upload.result(timeout=120)
NONCRITICAL_TIMEOUT == 120

\* a thread that ends within both timeouts
QuickThread == {60}

\* running times within both timeouts, beyond the non-critical one, beyond both
ThreadTimes == {60, 180, 360}

\* ------------------------------------------------------------------------
\* Session store
\* ------------------------------------------------------------------------
Fields ==
  {"status", "reference_status", "reference_path", "user_audio_path",
   "analysis_task_id", "results", "error", "tracks_ready_at"}

VARIABLES
  session,     \* decoded JSON stored under session:{id}
  live,        \* TRUE while the key session:{id} exists
  ttl,         \* remaining TTL of the key in seconds (-1: no expiry)
  refKey,      \* session:{id}:tracks_ready_at        (0: absent, n: n-th timestamp)
  userKey,     \* session:{id}:user_tracks_ready_at   (0: absent, n: n-th timestamp)
  \* --- generic concurrent callers of update_session
  mPc,         \* caller -> "idle" | "call" | "done"
  mPatch,      \* caller -> the updates dict it passes
  applied,     \* callers in the order Redis executed their EVAL
  prior,       \* the record before the first merge
  clock,       \* seconds elapsed (merge specification only)
  \* --- API process (session.py)
  bgPc,        \* prepare_reference_audio background task
  fbUsed,      \* the client has sent its fallback-source request
  upPc,        \* upload_recording
  upCount,     \* recordings the client has uploaded
  saPc,        \* start_analysis
  gasPc,       \* get_analysis_status
  grPc,        \* get_results
  grResp,      \* body / status of the last get_results response
  \* --- worker (pipeline.py) and Celery result backend
  prepPc,      \* prepare_reference
  prepCached,  \* its local demucs_cached
  cacheStems,  \* which of cache/{youtube_id}/vocals.wav and instrumentals.wav are in the blob store
  cachePitch,  \* cache/{youtube_id}/pitch_data.npz: "absent", "valid" or "corrupt"
  prepUrls,    \* prepare_reference's local vocals_url and instru_url
  prepRet,     \* the dicts returned by the runs of prepare_reference, in order
  prepRuns,    \* runs of prepare_reference begun
  sepCount,    \* calls of do_separate_audio made by prepare_reference
  pitchCount,  \* calls of do_extract_pitch made by prepare_reference
  uploadOutcomes, \* the outcomes a blob-store upload can have in this environment
  anaPc,       \* analyze_performance
  anaExc,      \* the exception it is propagating
  anaRaw,      \* session_data read by its error handler
  npzSeen,     \* what thread F found at cache/{youtube_id}/pitch_data.npz
  refPitch,    \* where ref_pitch comes from: "cached" or "extracted"
  thrDur,      \* how long each thread of phase 2 runs, in seconds
  waited,      \* how long the coordinator was blocked in phase 2, in seconds
  transcription, \* the transcription the pipeline goes on with
  lyricsSource,  \* the source field of lyrics_result
  threadTimes,   \* the running times a thread can have in this environment
  serviceOutcomes, \* the outcomes a call to an external service can have
  anaWorker,   \* the worker that runs analyze_performance
  gpuConsumers, \* the workers that consume the "gpu" queue in this deployment
  gpuOf,       \* the physical GPU behind DEMUCS_DEVICE of each worker
  disk,        \* the working directories of the session that exist on the worker
  outputBase,  \* AUDIO_OUTPUT_DIR of the worker
  pitchParams, \* the parameters do_extract_pitch declares in this build
  pitchCalls,  \* the calls of do_extract_pitch made so far, with their outcome
  syncOutcomes, \* the records thread E can return in this environment
  syncResult,  \* sync_result
  scoringOffset, \* the offset_seconds of each call of do_generate_feedback
  autoSync,    \* results["auto_sync"]
  age,         \* seconds since start_session wrote the record
  \* --- the two-tier caches (lyrics_cache.py, word_timestamps_cache.py)
  now,         \* the time, in seconds
  hot,         \* the Redis key of each artifact class
  cold,        \* the PostgreSQL row of each artifact class
  getPc,       \* the get in progress
  wrPc,        \* the set or invalidate in progress
  lastGet,     \* history: what the last get returned and when
  expect,      \* history: the entry of the last set that wrote both tiers
  nextVer,     \* history: the number of the next payload written
  advances,    \* history: how often the time was advanced
  reaperRuns,  \* history: the runs of cleanup_session_files
  \* --- speech to text (worker/tasks/transcription.py)
  sttConfig,   \* environment: GROQ_API_KEY set, WHISPER_LOCAL_FALLBACK on
  sttPc,       \* the position of do_transcribe_audio
  sttCaller,   \* who called: thread D of the pipeline or the Celery task
  sttRun,      \* the outcome of each tier in the current execution
  sttData,     \* the local variable data
  sttResult,   \* what the caller got: a text or the exception
  sttCalls,    \* history: the calls made to each tier for this request
  sttRetries,  \* the retries Celery has made of the task
  sttDelays,   \* history: the longest countdown of each retry
  \* --- the jury (worker/tasks/scoring.py)
  juryConfig,  \* environment: LITELLM_API_KEY set, the fallback model differs
  juryScore,   \* overall_score of the call
  juryPc,      \* per persona: the position of _generate_comment_async
  juryTry,     \* per persona: attempt of the running _litellm_call
  juryDraft,   \* per persona: comment and model_used so far
  juryCalls,   \* history, per persona and tier: the POSTs made
  juryOut,     \* what generate_jury_comments returned
  \* --- the blobs cleanup_session_files deletes (worker/tasks/cleanup.py)
  others,      \* environment: the other session records in Redis
  reaped,      \* history: the delete requests of cleanup_session_files
  \* --- requests and jobs (backend/app/routers/session.py)
  triggerLimit, \* environment: how often the client posts /analyze
  upResp,      \* the status of the last answer of upload_recording, 0 before it
  saCount,     \* history: the start_analysis requests accepted so far
  saJob,       \* start_analysis: the task it has sent
  anaJobs,     \* history: the analyze_performance tasks sent so far
  \* --- the blob-store client of a worker process (storage_client.py)
  stPathKind,  \* environment: user_audio_path is a storage URL or a local path
  stPc,        \* per thread: the position in _get_client
  stClient,    \* StorageClient._client: 0 for None, else the client
  stLive,      \* the httpx clients created so far; none is ever closed
  stHeld,      \* per thread: the client its running request uses, or 0
  \* --- the overall score (worker/tasks/scoring.py)
  scoreIn,     \* environment: pitch, rhythm and lyrics accuracy, in tenths
  scoreOut,    \* overall_score
  \* --- invalidation of the caches
  invalidated, \* history, per class: invalidate has returned, no write since
  \* --- the reference original in the blob store
  refOriginals, \* the files cache/{youtube_id}/reference.* that the store holds
  thr,         \* phase-2 thread A (_upload_and_notify): "idle" | "run" | "ok" | "fail"
  taskState,   \* AsyncResult(task_id).status
  taskInfo,    \* AsyncResult(task_id).info / .result
  \* --- event stream generator (sse.py)
  ssePc,
  elapsed,     \* number of POLL_INTERVAL sleeps done
  hbTimer,     \* heartbeat_timer in polls
  lastRef,     \* last_ref_status
  lastStatus,  \* last_analysis_status
  lastStep,    \* last_progress_step
  lastTracks,  \* last_tracks_ready
  obs,         \* what the current iteration has read so far (session fields,
               \* task_id, current_status, progress)
  prevObs,     \* what the previous iteration read
  iterEvents,  \* the events yielded in the current iteration
  events,      \* all events yielded, in order (kept when keepLog)
  keepLog,     \* whether the specification records the whole stream
  pollLimit,   \* MAX_DURATION / POLL_INTERVAL of this stream
  keysAtPoll,  \* history: <<refKey, userKey>> when the current iteration began
  dropAt       \* history: the position of analyze_performance when the client
               \* dropped the stream

storeVars == <<session, live, ttl>>
keyVars == <<refKey, userKey>>
mergeVars == <<mPc, mPatch, applied, prior, clock>>
apiVars == <<bgPc, fbUsed, upPc, upCount, saPc, gasPc, grPc, grResp>>
prepVars == <<prepPc, prepCached, cacheStems, cachePitch, prepUrls, prepRet, prepRuns,
              sepCount, pitchCount, uploadOutcomes>>
phaseVars == <<npzSeen, refPitch, thrDur, waited, transcription, lyricsSource,
               threadTimes, serviceOutcomes>>

anaVars == <<anaPc, anaExc, anaRaw, thr, phaseVars>>
taskVars == <<taskState, taskInfo>>
sseVars == <<ssePc, elapsed, hbTimer, lastRef, lastStatus, lastStep, lastTracks,
             obs, prevObs, iterEvents, events, keepLog, pollLimit, keysAtPoll, dropAt>>
diskVars == <<disk, outputBase>>

gpuVars == <<anaWorker, gpuConsumers, gpuOf>>

pitchVars == <<pitchParams, pitchCalls>>

syncVars == <<syncOutcomes, syncResult, scoringOffset, autoSync>>

lifeVars == <<age>>

cacheVars == <<now, hot, cold, getPc, wrPc, lastGet, expect, nextVer, advances, reaperRuns>>

sttVars == <<sttConfig, sttPc, sttCaller, sttRun, sttData, sttResult, sttCalls, sttRetries, sttDelays>>

juryVars == <<juryConfig, juryScore, juryPc, juryTry, juryDraft, juryCalls, juryOut>>

reapVars == <<others, reaped>>

reqVars == <<triggerLimit, upResp, saCount, saJob, anaJobs>>

stoVars == <<stPathKind, stPc, stClient, stLive, stHeld>>

scoreVars == <<scoreIn, scoreOut>>

invVars == <<invalidated>>

origVars == <<refOriginals>>

svcVars == <<sttVars, juryVars, reapVars, reqVars, stoVars, scoreVars, invVars, origVars>>

\* what the request handlers of the API leave alone, svcVars without reqVars
extRest ==
  <<diskVars, gpuVars, pitchVars, syncVars, lifeVars, cacheVars, sttVars, juryVars, reapVars,
    stoVars, scoreVars, invVars, origVars>>

extVars == <<diskVars, gpuVars, pitchVars, syncVars, lifeVars, cacheVars, svcVars>>

vars == <<storeVars, keyVars, mergeVars, apiVars, prepVars, anaVars, taskVars, sseVars, extVars>>

\* for k, v in pairs(updates) do data[k] = v end, dropping every field but the patch
ReplaceByPatch(data, updates) ==
  [k \in DOMAIN data |-> IF k \in DOMAIN updates THEN updates[k] ELSE NoVal]

\* for k, v in pairs(updates) do data[k] = v end
Overlay(data, updates) ==
  [k \in DOMAIN data |-> IF k \in DOMAIN updates THEN updates[k] ELSE data[k]]

\* redis.call('TTL', key): -2 when the key is missing, -1 without expiry
RedisTTL(isLive, t) == IF ~isLive THEN -2 ELSE t

\* local ttl = redis.call('TTL', key); if ttl < 1 then ttl = fallback_ttl end
LuaTtl(isLive, t, fallback) ==
  IF RedisTTL(isLive, t) < 1 THEN fallback ELSE RedisTTL(isLive, t)

\* RedisClient.update_session: one EVAL of _UPDATE_LUA, executed by Redis as
\* one indivisible step.  Returns 0 (and changes nothing) on a missing key.
UpdateSession(updates) ==
  IF live
    THEN /\ session' = Overlay(session, updates)
         /\ ttl' = LuaTtl(live, ttl, FALLBACK_TTL)
         /\ live' = TRUE
    ELSE UNCHANGED storeVars

EmptyRecord == [k \in Fields |-> NoVal]

\* The exceptions analyze_performance can end with: that of thread B, that of
\* thread C, that of a sequential step, and the RuntimeError of contextlib
ExcNames == {"RefSeparationError", "UserPitchError", "StepError", "RuntimeError"}

\* f"Analyse échouée : {type(exc).__name__}"
ErrorSummary(exc) == "Analyse echouee : " \o exc

\* str(task_result.result) of a failed task: the message of the exception
ExcMessage(exc) == "message of " \o exc

\* The updates dicts of the update_session call sites
ProgramPatches ==
  { [reference_status |-> "ready", reference_path |-> "ref_url"],
    [reference_status |-> "error", error |-> "bg_error"],
    [reference_status |-> "pending"],
    [user_audio_path |-> "user_url", status |-> "recording_uploaded"],
    [status |-> "analyzing"],
    [analysis_task_id |-> "task"],
    [status |-> "completed", results |-> "bundle"] }
  \cup { [status |-> "error", error |-> ExcMessage(e)] : e \in ExcNames }

\* ------------------------------------------------------------------------
\* Two concurrent callers of update_session on one key
\* ------------------------------------------------------------------------
Callers == {"c1", "c2"}

\* session records as start_session and the handlers leave them
PriorRecords ==
  { Overlay(EmptyRecord, [status |-> "created", reference_status |-> "pending"]),
    Overlay(EmptyRecord, [status |-> "recording_uploaded", reference_status |-> "ready",
                          reference_path |-> "ref_url", user_audio_path |-> "user_url"]),
    Overlay(EmptyRecord, [status |-> "analyzing", reference_status |-> "ready",
                          reference_path |-> "ref_url", user_audio_path |-> "user_url",
                          analysis_task_id |-> "task"]) }

\* the caller's EVAL is executed
MergeCall(c) ==
  /\ mPc[c] = "call"
  /\ UpdateSession(mPatch[c])
  /\ mPc' = [mPc EXCEPT ![c] = "done"]
  /\ applied' = IF live THEN Append(applied, c) ELSE applied
  /\ UNCHANGED <<mPatch, prior, clock>>
  /\ UNCHANGED <<extVars, keyVars, apiVars, prepVars, anaVars, taskVars, sseVars>>

\* one second passes: Redis counts the TTL down and expires the key
Tick ==
  /\ clock < MaxClock
  /\ clock' = clock + 1
  /\ IF live /\ ttl = 0
       THEN live' = FALSE /\ UNCHANGED <<session, ttl>>
       ELSE IF live /\ ttl > 0
         THEN ttl' = ttl - 1 /\ UNCHANGED <<session, live>>
         ELSE UNCHANGED storeVars
  /\ UNCHANGED <<mPc, mPatch, applied, prior>>
  /\ UNCHANGED <<extVars, keyVars, apiVars, prepVars, anaVars, taskVars, sseVars>>

\* ------------------------------------------------------------------------
\* API handlers (backend/app/routers/session.py)
\* ------------------------------------------------------------------------

\* prepare_reference_audio, up to its update_session: the reference is marked
\* ready before the worker has downloaded anything
BgMarkReady ==
  /\ bgPc = "mark"
  /\ UpdateSession([reference_status |-> "ready", reference_path |-> "ref_url"])
  /\ bgPc' = "send"
  /\ UNCHANGED <<extVars, keyVars, mergeVars, fbUsed, upPc, upCount, saPc, gasPc, grPc, grResp,
                 prepVars, anaVars, taskVars, sseVars>>

\* prepare_reference_audio: send_task("tasks.pipeline.prepare_reference");
\* the task waits in the gpu-heavy queue while the worker runs an earlier one
BgSendTask ==
  /\ bgPc = "send"
  /\ prepPc \in {"idle", "done", "failed"}
  /\ prepPc' = "queued"
  /\ bgPc' = "done"
  /\ UNCHANGED <<extVars, storeVars, keyVars, mergeVars, fbUsed, upPc, upCount, saPc, gasPc, grPc, grResp,
                 prepCached, cacheStems, cachePitch, prepUrls, prepRet, prepRuns,
                 sepCount, pitchCount, uploadOutcomes, anaVars, taskVars, sseVars>>

\* prepare_reference_audio: except Exception (the YouTube cache lookup fails,
\* the broker refuses send_task)
BgFail ==
  /\ bgPc \in {"mark", "send"}
  /\ UpdateSession([reference_status |-> "error", error |-> "bg_error"])
  /\ bgPc' = "done"
  /\ UNCHANGED <<extVars, keyVars, mergeVars, fbUsed, upPc, upCount, saPc, gasPc, grPc, grResp,
                 prepVars, anaVars, taskVars, sseVars>>

\* set_fallback_source: the session exists, the video info is fetched, the
\* record is merged and the background task is scheduled again
SetFallbackSource ==
  /\ ~fbUsed
  /\ bgPc \in {"idle", "done"}
  /\ live
  /\ UpdateSession([reference_status |-> "pending"])
  /\ fbUsed' = TRUE
  /\ bgPc' = "mark"
  /\ UNCHANGED <<extVars, keyVars, mergeVars, upPc, upCount, saPc, gasPc, grPc, grResp,
                 prepVars, anaVars, taskVars, sseVars>>

\* upload_recording accepts everything
AnyReference(rec) == TRUE

\* the test of upload_recording: session.get("reference_status") != "ready"
ReferenceReady(rec) == rec["reference_status"] = "ready"

\* upload_recording, up to storage.upload: 404 / 400 leave everything as it is
UploadBegin ==
  /\ upPc = "idle"
  /\ upCount < MaxUploads
  /\ live
  /\ ReferenceReady(session)
  /\ upPc' = "store"
  /\ UNCHANGED <<extRest, reqVars, storeVars, keyVars, mergeVars, bgPc, fbUsed, upCount, saPc, gasPc,
                 grPc, grResp, prepVars, anaVars, taskVars, sseVars>>

\* upload_recording: HTTPException 404 without a record, HTTPException
\* 400 "Reference audio not ready yet"; nothing is read or stored
UploadReject ==
  /\ upPc = "idle"
  /\ upCount < MaxUploads
  /\ ~(live /\ ReferenceReady(session))
  /\ upResp' = IF live THEN 400 ELSE 404
  /\ UNCHANGED <<extRest, triggerLimit, saCount, saJob, anaJobs, storeVars, keyVars, mergeVars,
                 apiVars, prepVars, anaVars, taskVars, sseVars>>

\* upload_recording: update_session after the blob is stored, and the
\* answer "uploaded"
UploadStore ==
  /\ upPc = "store"
  /\ UpdateSession([user_audio_path |-> "user_url", status |-> "recording_uploaded"])
  /\ upPc' = "idle"
  /\ upCount' = upCount + 1
  /\ upResp' = 200
  /\ UNCHANGED <<extRest, triggerLimit, saCount, saJob, anaJobs, keyVars, mergeVars, bgPc, fbUsed,
                 saPc, gasPc, grPc, grResp, prepVars, anaVars, taskVars, sseVars>>

\* start_analysis: get_session and the three prerequisite checks
StartAnalysisBegin ==
  /\ saPc = "idle" \/ (saPc = "done" /\ saCount < triggerLimit)
  /\ live
  /\ session["reference_status"] = "ready"
  /\ session["user_audio_path"] # NoVal
  /\ session["reference_path"] # NoVal
  /\ saPc' = "status"
  /\ saCount' = saCount + 1
  /\ UNCHANGED <<extRest, triggerLimit, upResp, saJob, anaJobs, storeVars, keyVars, mergeVars, bgPc,
                 fbUsed, upPc, upCount, gasPc, grPc, grResp, prepVars, anaVars, taskVars, sseVars>>

\* start_analysis: update_session({"status": "analyzing"})
StartAnalysisStatus ==
  /\ saPc = "status"
  /\ UpdateSession([status |-> "analyzing"])
  /\ saPc' = "send"
  /\ UNCHANGED <<extVars, keyVars, mergeVars, bgPc, fbUsed, upPc, upCount, gasPc, grPc, grResp,
                 prepVars, anaVars, taskVars, sseVars>>

\* task.id of the tasks that start_analysis sends, in the order sent
TaskIds == <<"task", "task_2">>

TaskId(n) == TaskIds[n]

\* start_analysis: send_task("tasks.pipeline.analyze_performance").  Every
\* call sends a task; the run of the first one is followed, a later one
\* is counted
StartAnalysisSend ==
  /\ saPc = "send"
  /\ anaJobs' = anaJobs + 1
  /\ saJob' = anaJobs + 1
  /\ IF anaJobs = 0
       THEN anaPc' = "queued" /\ taskState' = "PENDING"
       ELSE UNCHANGED <<anaPc, taskState>>
  /\ saPc' = "store"
  /\ UNCHANGED <<extRest, triggerLimit, upResp, saCount, storeVars, keyVars, mergeVars, bgPc, fbUsed,
                 upPc, upCount, gasPc, grPc, grResp,
                 prepVars, phaseVars, anaExc, anaRaw, thr, taskInfo, sseVars>>

\* start_analysis: update_session({"analysis_task_id": task.id})
StartAnalysisStore ==
  /\ saPc = "store"
  /\ UpdateSession([analysis_task_id |-> TaskId(saJob)])
  /\ saPc' = "done"
  /\ UNCHANGED <<extVars, keyVars, mergeVars, bgPc, fbUsed, upPc, upCount, gasPc, grPc, grResp,
                 prepVars, anaVars, taskVars, sseVars>>

\* get_analysis_status: get_session finds a task id
AnalysisStatusRead ==
  /\ gasPc = "idle"
  /\ live
  /\ session["analysis_task_id"] # NoVal
  /\ gasPc' = "task"
  /\ UNCHANGED <<extVars, storeVars, keyVars, mergeVars, bgPc, fbUsed, upPc, upCount, saPc, grPc, grResp,
                 prepVars, anaVars, taskVars, sseVars>>

\* get_analysis_status: task_result.status
AnalysisStatusTask ==
  /\ gasPc = "task"
  /\ gasPc' = CASE taskState = "SUCCESS" -> "write_ok"
                 [] taskState = "FAILURE" -> "write_err"
                 [] OTHER -> "idle"
  /\ UNCHANGED <<extVars, storeVars, keyVars, mergeVars, bgPc, fbUsed, upPc, upCount, saPc, grPc, grResp,
                 prepVars, anaVars, taskVars, sseVars>>

\* get_analysis_status: update_session with the terminal status
AnalysisStatusWrite ==
  /\ gasPc \in {"write_ok", "write_err"}
  /\ IF gasPc = "write_ok"
       THEN UpdateSession([status |-> "completed", results |-> taskInfo])
       ELSE UpdateSession([status |-> "error", error |-> ExcMessage(taskInfo)])
  /\ gasPc' = "idle"
  /\ UNCHANGED <<extVars, keyVars, mergeVars, bgPc, fbUsed, upPc, upCount, saPc, grPc, grResp,
                 prepVars, anaVars, taskVars, sseVars>>

\* the answer of get_results while the task has not succeeded, given on success
GetResultsPending(result) == "202"

\* get_results, on SUCCESS of the task: results = task_result.result
GetResultsOnSuccess(result) == result

\* get_results: get_session; stored results are returned as they are
GetResultsRead ==
  /\ grPc = "idle"
  /\ live
  /\ IF session["results"] # NoVal
       THEN grResp' = session["results"] /\ grPc' = "idle"
       ELSE IF session["analysis_task_id"] # NoVal
         THEN grResp' = NoVal /\ grPc' = "task"
         ELSE grResp' = "404" /\ grPc' = "idle"
  /\ UNCHANGED <<extVars, storeVars, keyVars, mergeVars, bgPc, fbUsed, upPc, upCount, saPc, gasPc,
                 prepVars, anaVars, taskVars, sseVars>>

\* get_results: task_result.status
GetResultsTask ==
  /\ grPc = "task"
  /\ IF taskState = "SUCCESS"
       THEN grResp' = GetResultsOnSuccess(taskInfo) /\ grPc' = "write"
       ELSE grResp' = "202" /\ grPc' = "idle"
  /\ UNCHANGED <<extVars, storeVars, keyVars, mergeVars, bgPc, fbUsed, upPc, upCount, saPc, gasPc,
                 prepVars, anaVars, taskVars, sseVars>>

\* get_results: update_session({"results": results, "status": "completed"})
GetResultsWrite ==
  /\ grPc = "write"
  /\ UpdateSession([results |-> grResp, status |-> "completed"])
  /\ grPc' = "idle"
  /\ UNCHANGED <<extVars, keyVars, mergeVars, bgPc, fbUsed, upPc, upCount, saPc, gasPc, grResp,
                 prepVars, anaVars, taskVars, sseVars>>

\* ------------------------------------------------------------------------
\* prepare_reference (worker/tasks/pipeline.py)
\* ------------------------------------------------------------------------

Stems == {"vocals", "instrumentals"}

\* the workers named by the task routes: the one with the high-VRAM GPU and
\* a pool worker
HeavyWorker == "heavy"

PoolWorker == "pool"

\* send_task("tasks.pipeline.prepare_reference", ..., queue="gpu-heavy")
PREPARE_QUEUE == "gpu-heavy"

\* send_task("tasks.pipeline.analyze_performance", ..., queue="gpu")
ANALYZE_QUEUE == "gpu"

\* gpu-heavy: the worker with the best GPU; gpu: all GPU workers
Consumers(queue, onGpu) == IF queue = "gpu-heavy" THEN {HeavyWorker} ELSE onGpu

\* prepare_reference is between its pickup and its end
PrepRunning == prepPc \in {"download_cached", "separate", "notify", "pitch"}

SessionId == "s1"

YoutubeId == "yt1"

\* StorageClient.public_url of a relative path; upload returns the same URL
PublicUrl(rel) == "base/files/bucket/" \o rel

CacheKey(name) == "cache/" \o YoutubeId \o "/" \o name

SessionRefKey(name) == "sessions/" \o SessionId \o "_ref/" \o name

\* vocals_url / instru_url: the URL of the session copy when its upload
\* succeeded, the cache URL when it failed after a cache HIT, the expected
\* session URL otherwise
TrackUrl(uploaded, cached, name) ==
  IF uploaded THEN PublicUrl(SessionRefKey(name))
  ELSE IF cached THEN PublicUrl(CacheKey(name))
  ELSE PublicUrl(SessionRefKey(name))

\* ref_temp / "pitch_data_cached.npz"
CachedPitchPath == "tmp/" \o SessionId \o "_ref/pitch_data_cached.npz"

\* do_extract_pitch: Path(vocals_path).parent / f"pitch_data_{session_id}.npz"
ExtractedPitchPath(vocalsDir) == vocalsDir \o "/pitch_data_" \o SessionId \o "_ref.npz"

\* the directory of vocals_local: ref_temp after a cache HIT, the output
\* directory of do_separate_audio after a MISS
VocalsDir(cached) == IF cached THEN "tmp/" \o SessionId \o "_ref" ELSE "separated/" \o SessionId \o "_ref"

\* demucs_cached = youtube_id and storage.exists(f"cache/{youtube_id}/vocals.wav")
DemucsCached(stems) == "vocals" \in stems

\* the pitch extractor and the places that call it: thread C of
\* analyze_performance, thread F of analyze_performance, prepare_reference
CallSites == {"thread_C", "thread_F", "prepare_reference"}

\* def do_extract_pitch(vocals_path: str, session_id: str)
DeclaredParams == {"vocals_path", "session_id"}

\* the parameters of an extractor that declares every keyword its callers pass
CallerParams == DeclaredParams \cup {"fast_mode", "device"}

\* fast_mode=False in thread C, fast_mode=True in thread F and prepare_reference
FastMode(site) == site # "thread_C"

\* every call site passes fast_mode=... and device=CREPE_DEVICE by keyword
CallKeywords(site) == {"fast_mode", "device"}

RequestedModel(site) == IF FastMode(site) THEN "tiny" ELSE "full"

\* a call with a keyword the function does not declare raises TypeError before
\* the body runs; the body of the function in the source passes model="full"
\* to torchcrepe.predict whatever the caller asked for
DoExtractPitch(params, site) ==
  IF ~(CallKeywords(site) \subseteq params)
    THEN [site |-> site, status |-> "TypeError", model |-> NoVal]
    ELSE [site |-> site, status |-> "completed",
          model |-> IF "fast_mode" \in params THEN RequestedModel(site) ELSE "full"]

\* the worker takes the task (the heavy worker is the consumer of the
\* gpu-heavy queue and runs one task at a time): Ollama unload, then the
\* Demucs cache check
PrepCheckCache ==
  /\ prepPc = "queued"
  /\ \E w \in Consumers(PREPARE_QUEUE, gpuConsumers) : anaWorker # w
  /\ prepCached' = DemucsCached(cacheStems)
  /\ prepPc' = IF DemucsCached(cacheStems) THEN "download_cached" ELSE "separate"
  /\ prepRuns' = prepRuns + 1
  /\ prepUrls' = NoVal
  /\ UNCHANGED <<extVars, storeVars, keyVars, mergeVars, apiVars, cacheStems, cachePitch, prepRet,
                 sepCount, pitchCount, uploadOutcomes, anaVars, taskVars, sseVars>>

\* cache HIT: both stems are downloaded; download_to_file raises on a stem
\* that is not in the store
PrepDownloadCached ==
  /\ prepPc = "download_cached"
  /\ cacheStems = Stems
  /\ prepPc' = "notify"
  /\ UNCHANGED <<extVars, storeVars, keyVars, mergeVars, apiVars, prepCached, cacheStems, cachePitch,
                 prepUrls, prepRet, prepRuns, sepCount, pitchCount, uploadOutcomes,
                 anaVars, taskVars, sseVars>>

\* the file name in the reference_path that prepare_reference_audio
\* writes: ".../cache/{youtube_id}/reference.wav"
ReferencePathFile == "reference.wav"

\* the file prepare_reference uploads after the download from YouTube:
\* f"cache/{youtube_id}/reference.flac"
UploadedOriginal == "reference.flac"

\* what thread B of analyze_performance and the cache HIT of
\* prepare_reference need: on a HIT (vocals.wav exists) both stems are
\* downloaded, on a MISS _resolve_audio downloads reference_path;
\* download_to_file raises for a file that the store does not hold
RefInputObtainable(stems, originals) ==
  IF DemucsCached(stems) THEN stems = Stems ELSE ReferencePathFile \in originals

\* cache MISS: the download from YouTube and the best-effort upload of the
\* original, do_separate_audio, best-effort upload of the two stems to
\* cache/{youtube_id}/ (_upload_pair: each stem by its own _safe_upload)
PrepSeparate ==
  /\ prepPc = "separate"
  /\ prepPc' = "notify"
  /\ sepCount' = sepCount + 1
  /\ \E uo \in uploadOutcomes :
       refOriginals' = refOriginals \cup (IF uo THEN {UploadedOriginal} ELSE {})
  /\ \E uv \in uploadOutcomes, ui \in uploadOutcomes :
       cacheStems' = cacheStems \cup (IF uv THEN {"vocals"} ELSE {})
                                \cup (IF ui THEN {"instrumentals"} ELSE {})
  /\ UNCHANGED <<diskVars, gpuVars, pitchVars, syncVars, lifeVars, cacheVars, sttVars, juryVars,
                 reapVars, reqVars, stoVars, scoreVars, invVars, storeVars, keyVars, mergeVars,
                 apiVars, prepCached, cachePitch, prepUrls,
                 prepRet, prepRuns, pitchCount, uploadOutcomes, anaVars, taskVars, sseVars>>

\* flow envelope and session copies (both non-fatal), vocals_url and
\* instru_url, then _notify_tracks_ready: SETEX session:{id}:tracks_ready_at
PrepNotify ==
  /\ prepPc = "notify"
  /\ \E v \in uploadOutcomes, i \in uploadOutcomes :
       prepUrls' = [vocals |-> TrackUrl(v, prepCached, "vocals.wav"),
                    instru |-> TrackUrl(i, prepCached, "instrumentals.wav")]
  /\ refKey' = refKey + 1
  /\ prepPc' = "pitch"
  /\ UNCHANGED <<extVars, storeVars, userKey, mergeVars, apiVars, prepCached, cacheStems, cachePitch,
                 prepRet, prepRuns, sepCount, pitchCount, uploadOutcomes,
                 anaVars, taskVars, sseVars>>

\* the returned dict; content is what the file at reference_pitch_path holds
PrepReturn(path, content) ==
  [reference_vocals_url |-> prepUrls.vocals,
   reference_instrumentals_url |-> prepUrls.instru,
   reference_pitch_path |-> path,
   content |-> content]

\* pitch cache probe: on a HIT the cached file is downloaded and its path
\* returned as it is; on a MISS do_extract_pitch runs and its artifact is
\* uploaded to the cache, best-effort; then return
PrepPitch ==
  /\ prepPc = "pitch"
  /\ IF cachePitch # "absent"
       THEN /\ prepRet' = Append(prepRet, PrepReturn(CachedPitchPath, cachePitch))
            /\ UNCHANGED <<cachePitch, pitchCount, pitchCalls>>
       ELSE /\ DoExtractPitch(pitchParams, "prepare_reference").status = "completed"
            /\ pitchCalls' = pitchCalls \cup {DoExtractPitch(pitchParams, "prepare_reference")}
            /\ pitchCount' = pitchCount + 1
            /\ prepRet' = Append(prepRet,
                                 PrepReturn(ExtractedPitchPath(VocalsDir(prepCached)), "valid"))
            /\ \E up \in uploadOutcomes : cachePitch' = IF up THEN "valid" ELSE "absent"
  /\ prepPc' = "done"
  /\ UNCHANGED <<diskVars, gpuVars, pitchParams, lifeVars, cacheVars, svcVars, syncVars, storeVars, keyVars, mergeVars, apiVars, prepCached, cacheStems,
                 prepUrls, prepRuns, sepCount, uploadOutcomes, anaVars, taskVars, sseVars>>

\* a download, do_separate_audio or do_extract_pitch raises: the function has
\* try / finally only, the exception leaves the task
PrepFail ==
  /\ prepPc \in {"download_cached", "separate", "pitch"}
  /\ prepPc' = "failed"
  /\ pitchCalls' = IF prepPc = "pitch" /\ cachePitch = "absent"
                     THEN pitchCalls \cup {DoExtractPitch(pitchParams, "prepare_reference")}
                     ELSE pitchCalls
  /\ UNCHANGED <<diskVars, gpuVars, pitchParams, lifeVars, cacheVars, svcVars, syncVars, storeVars, keyVars, mergeVars, apiVars, prepCached, cacheStems, cachePitch,
                 prepUrls, prepRet, prepRuns, sepCount, pitchCount, uploadOutcomes,
                 anaVars, taskVars, sseVars>>

\* ------------------------------------------------------------------------
\* analyze_performance (worker/tasks/pipeline.py)
\* ------------------------------------------------------------------------
\* update_progress(self, step, progress, detail)
UpdateProgress(step) ==
  /\ taskState' = "PROGRESS"
  /\ taskInfo' = step

\* an exception raised inside `with trace_pipeline(...)` reaches the except
\* clause as it is, or as the RuntimeError that contextlib raises when the
\* generator of trace_pipeline yields a second time (Langfuse configured)
Raise(origin) ==
  /\ anaPc' = "except"
  /\ \E e \in {origin, "RuntimeError"} : anaExc' = e

\* AUDIO_TEMP_DIR and AUDIO_OUTPUT_DIR when the environment sets neither
TEMP_BASE == "/tmp/kiaraoke"

OUTPUT_BASE == "/app/audio_files"

\* _temp_dir(name)
TempDir(name) == TEMP_BASE \o "/" \o name

\* session_temp, user_temp, ref_temp
TempDirs == {TempDir(SessionId), TempDir(SessionId \o "_user"), TempDir(SessionId \o "_ref")}

\* do_separate_audio: output_dir = AUDIO_OUTPUT_DIR / session_id, where the
\* stems are written
StemsDir(base, name) == base \o "/" \o name

\* finally: shutil.rmtree of session_temp, user_temp and ref_temp
RemoveTempDirs(dirs) == dirs \ TempDirs

\* the worker takes the task (task_track_started) and creates the three
\* temporary directories
AnaPickup ==
  /\ anaPc = "queued"
  /\ anaPc' = "started"
  /\ taskState' = "STARTED"
  /\ disk' = disk \cup TempDirs
  /\ \E w \in Consumers(ANALYZE_QUEUE, gpuConsumers) :
       /\ w = HeavyWorker => ~PrepRunning
       /\ anaWorker' = w
  /\ UNCHANGED <<outputBase, pitchVars, lifeVars, cacheVars, svcVars, syncVars, gpuConsumers, gpuOf, storeVars, keyVars, mergeVars, apiVars, prepVars, phaseVars, anaExc, anaRaw, thr,
                 taskInfo, sseVars>>

\* thread E and the offset used for scoring.  Offsets are in milliseconds and
\* confidences in thousandths: compute_sync_offset rounds both to 3 decimals
CONFIDENCE_THRESHOLD == 300

Offsets == {0 - 1500, 0, 2500}

Confidences == {0, 299, 300, 301, 1000}

\* compute_sync_offset: the offset and the confidence of the correlation peak,
\* and (0, 0) when one of the signals is near-silent
ComputeSyncOffset(offset, confidence, silent) ==
  [offset_seconds |-> IF silent THEN 0 ELSE offset,
   confidence |-> IF silent THEN 0 ELSE confidence,
   method |-> "cross_correlation"]

\* _sync: the record of compute_sync_offset, or the fallback when it raises
SyncFallback == [offset_seconds |-> 0, confidence |-> 0, method |-> "fallback"]

SyncRecords ==
  {ComputeSyncOffset(o, c, s) : o \in Offsets, c \in Confidences, s \in BOOLEAN}
    \cup {SyncFallback}

\* a sync whose peak is clear, for the runs that are not about the offset
ClearSync == {ComputeSyncOffset(2500, 1000, FALSE)}

EffectiveOffsetAtLeast(sr) ==
  IF sr.confidence >= CONFIDENCE_THRESHOLD THEN sr.offset_seconds ELSE 0

\* effective_offset = auto_offset if sync_confidence > 0.3 else 0.0
EffectiveOffset(sr) ==
  IF sr.confidence > CONFIDENCE_THRESHOLD THEN sr.offset_seconds ELSE 0

\* the linear steps: each ends with the update_progress call that follows it
StepAfter(pc) ==
  CASE pc = "started"              -> "loading_model"
    [] pc = "loading_model"        -> "separating_user"
    [] pc = "separating_user"      -> "separating_user_done"
    [] pc = "analysis_done"        -> "calculating_scores"
    [] pc = "calculating_scores"   -> "jury_deliberation"
    [] pc = "jury_deliberation"    -> "jury_voting"
    [] pc = "jury_voting"          -> "completed"
    [] OTHER                       -> NoVal

\* the work done at a step may raise: _resolve_audio, do_separate_audio,
\* thread F of phase 3 (the download of the cached NPZ, do_extract_pitch),
\* do_generate_feedback
MayRaise(pc) ==
  pc \in {"loading_model", "separating_user", "sync_and_pitch_ref", "crepe_ref_extract",
          "jury_deliberation"}

AnaStep ==
  /\ StepAfter(anaPc) # NoVal
  /\ anaPc' = StepAfter(anaPc)
  /\ UpdateProgress(StepAfter(anaPc))
  /\ disk' = IF anaPc = "separating_user"
               THEN disk \cup {StemsDir(outputBase, SessionId \o "_user")}
               ELSE disk
  /\ scoringOffset' = IF anaPc = "jury_deliberation"
                        THEN Append(scoringOffset, EffectiveOffset(syncResult))
                        ELSE scoringOffset
  /\ autoSync' = IF anaPc = "jury_deliberation" THEN syncResult ELSE autoSync
  /\ UNCHANGED <<outputBase, pitchVars, lifeVars, cacheVars, svcVars, syncOutcomes, syncResult, gpuVars, storeVars, keyVars, mergeVars, apiVars, prepVars, phaseVars, anaExc, anaRaw, thr, sseVars>>

AnaStepFail ==
  /\ MayRaise(anaPc)
  /\ anaPc = "sync_and_pitch_ref" => cachePitch # "absent"
  /\ Raise("StepError")
  /\ UNCHANGED <<extVars, storeVars, keyVars, mergeVars, apiVars, prepVars, phaseVars, anaRaw, thr, taskVars, sseVars>>

Threads == {"A", "B", "C", "D"}

NoDur == [t \in Threads |-> 0]

\* the tiers of do_transcribe_audio: shared-whisper HTTP, Groq, local Whisper
Tiers == {1, 2, 3}

\* pool.__exit__: shutdown(wait=True) returns when the slowest thread has ended
PoolExitWait(dur) == CHOOSE m \in {dur[t] : t \in Threads} : \A t \in Threads : dur[t] <= m

\* fut.result(timeout=...) called `at` seconds after the submits raises
\* TimeoutError when the thread needs more than timeout seconds from then on
TimedOut(dur, t, at, timeout) == dur[t] - at > timeout

\* do_transcribe_audio: the first tier that answers gives the text; when a
\* tier is not configured or fails the next one is tried; TranscriptionError
\* when none is left
DoTranscribeAudio(tiers) ==
  IF tiers[1] THEN "text_http"
  ELSE IF tiers[2] THEN "text_groq"
  ELSE IF tiers[3] THEN "text_local"
  ELSE "TranscriptionError"

\* get_lyrics never raises: the source is "genius" or "none"
GetLyrics(found) == IF found THEN "genius" ELSE "none"

\* the result of thread D taken without the try / except
TranscriptionUnguarded(d) == d

\* try: fut_whisper.result(timeout=120) except Exception: {"text": "", "words": []}
Transcription(d) == IF d \in {"TranscriptionError", "TimeoutError"} THEN "empty" ELSE d

\* lyrics_result: the one of thread D, or {"text": "", "source": "none", "status": "error"}
LyricsSource(d, lr) == IF d \in {"TranscriptionError", "TimeoutError"} THEN "none" ELSE lr

\* phase 2: update_progress("analyzing_parallel") and the four submits
AnaFanOut ==
  /\ anaPc = "separating_user_done"
  /\ anaPc' = "analyzing_parallel"
  /\ UpdateProgress("analyzing_parallel")
  /\ thr' = "run"
  /\ thrDur' \in [Threads -> threadTimes]
  /\ pitchCalls' = pitchCalls \cup {DoExtractPitch(pitchParams, "thread_C")}
  /\ UNCHANGED <<diskVars, gpuVars, pitchParams, lifeVars, cacheVars, svcVars, syncVars, storeVars, keyVars, mergeVars, apiVars, prepVars, npzSeen, refPitch, waited,
                 transcription, lyricsSource, threadTimes, serviceOutcomes,
                 anaExc, anaRaw, sseVars>>

\* thread A: _upload_pair (failures swallowed by _safe_upload), then
\* _notify_user_tracks_ready: SETEX session:{id}:user_tracks_ready_at
ThreadUploadNotify ==
  /\ anaPc = "analyzing_parallel"
  /\ thr = "run"
  /\ userKey' = userKey + 1
  /\ thr' = "ok"
  /\ UNCHANGED <<extVars, storeVars, refKey, mergeVars, apiVars, prepVars, phaseVars, anaPc, anaExc, anaRaw,
                 taskVars, sseVars>>

\* thread A raises before the notification: f.result(timeout=120) of
\* _upload_pair with STORAGE_UPLOAD_PARALLELISM = 2
ThreadUploadRaise ==
  /\ anaPc = "analyzing_parallel"
  /\ thr = "run"
  /\ thr' = "fail"
  /\ UNCHANGED <<extVars, storeVars, keyVars, mergeVars, apiVars, prepVars, phaseVars, anaPc, anaExc, anaRaw,
                 taskVars, sseVars>>

\* pool.__exit__ (shutdown(wait=True)) has waited for the four threads (B
\* has downloaded the cached stems into ref_temp or, on a MISS, separated the
\* reference into its own output directory); the
\* fut.result(timeout=...) calls that follow find every future done.  B
\* (_separate_ref) and C (_crepe_user) returned; the result of D
\* (_whisper_lyrics) is used, or replaced by the empty transcription and the
\* "none" lyrics when D raised or timed out; the result of A is only logged
AnaJoin ==
  /\ anaPc = "analyzing_parallel"
  /\ thr \in {"ok", "fail"}
  /\ RefInputObtainable(cacheStems, refOriginals)
  /\ DoExtractPitch(pitchParams, "thread_C").status = "completed"
  /\ LET at == PoolExitWait(thrDur) IN
       /\ ~TimedOut(thrDur, "B", at, CRITICAL_TIMEOUT)
       /\ ~TimedOut(thrDur, "C", at, CRITICAL_TIMEOUT)
       /\ waited' = at
       /\ \E tiers \in [Tiers -> serviceOutcomes], found \in serviceOutcomes :
            LET d == IF TimedOut(thrDur, "D", at, NONCRITICAL_TIMEOUT)
                       THEN "TimeoutError"
                       ELSE DoTranscribeAudio(tiers)
            IN /\ transcription' = Transcription(d)
               /\ lyricsSource' = LyricsSource(d, GetLyrics(found))
  /\ thrDur' = NoDur
  /\ disk' = IF DemucsCached(cacheStems)
               THEN disk
               ELSE disk \cup {StemsDir(outputBase, SessionId \o "_ref")}
  /\ anaPc' = "sync_and_pitch_ref"
  /\ UpdateProgress("sync_and_pitch_ref")
  /\ syncResult' \in syncOutcomes
  /\ UNCHANGED <<outputBase, pitchVars, lifeVars, cacheVars, svcVars, syncOutcomes, scoringOffset, autoSync, gpuVars, storeVars, keyVars, mergeVars, apiVars, prepVars, npzSeen, refPitch,
                 threadTimes, serviceOutcomes, anaExc, anaRaw, thr, sseVars>>

\* fut_ref.result(timeout=300) or fut_crepe_user.result(timeout=300) re-raises
\* the exception of thread B or C, or raises TimeoutError
AnaJoinFail(t) ==
  /\ anaPc = "analyzing_parallel"
  /\ thr \in {"ok", "fail"}
  /\ t \in {"B", "C"}
  /\ waited' = PoolExitWait(thrDur)
  /\ thrDur' = NoDur
  /\ Raise(IF t = "B" THEN "RefSeparationError" ELSE "UserPitchError")
  /\ UNCHANGED <<extVars, storeVars, keyVars, mergeVars, apiVars, prepVars, npzSeen, refPitch,
                 transcription, lyricsSource, threadTimes, serviceOutcomes,
                 anaRaw, thr, taskVars, sseVars>>

\* a cached NPZ accepted without being opened
NpzTrusted(content) == TRUE

\* np.load succeeds and "frequency" and "time" are in the file
NpzUsable(content) == content = "valid"

\* phase 3, thread F (_crepe_ref) up to its first return: the pitch cache is
\* probed; a cached NPZ is downloaded and validated, a valid one is returned
\* as ref_pitch; an invalid one is logged and the thread goes on to
\* do_extract_pitch, as it does on a MISS.  Thread E (_sync) never raises
AnaCrepeRefProbe ==
  /\ anaPc = "sync_and_pitch_ref"
  /\ npzSeen' = cachePitch
  /\ IF cachePitch # "absent" /\ NpzUsable(cachePitch)
       THEN /\ refPitch' = "cached"
            /\ anaPc' = "analysis_done"
            /\ UpdateProgress("analysis_done")
            /\ UNCHANGED pitchCalls
       ELSE /\ anaPc' = "crepe_ref_extract"
            /\ pitchCalls' = pitchCalls \cup {DoExtractPitch(pitchParams, "thread_F")}
            /\ UNCHANGED <<refPitch, taskVars>>
  /\ UNCHANGED <<diskVars, gpuVars, pitchParams, lifeVars, cacheVars, svcVars, syncVars, storeVars, keyVars, mergeVars, apiVars, prepVars, thrDur, waited,
                 transcription, lyricsSource, threadTimes, serviceOutcomes,
                 anaExc, anaRaw, thr, sseVars>>

\* thread F: do_extract_pitch, then the best-effort upload of the new artifact
\* to ref_pitch_cache_key, the key that was probed
AnaCrepeRefExtract ==
  /\ anaPc = "crepe_ref_extract"
  /\ DoExtractPitch(pitchParams, "thread_F").status = "completed"
  /\ refPitch' = "extracted"
  /\ \E up \in uploadOutcomes : cachePitch' = IF up THEN "valid" ELSE cachePitch
  /\ anaPc' = "analysis_done"
  /\ UpdateProgress("analysis_done")
  /\ UNCHANGED <<extVars, storeVars, keyVars, mergeVars, apiVars, prepPc, prepCached, cacheStems,
                 prepUrls, prepRet, prepRuns, sepCount, pitchCount, uploadOutcomes,
                 npzSeen, thrDur, waited, transcription, lyricsSource, threadTimes,
                 serviceOutcomes, anaExc, anaRaw, thr, sseVars>>

\* flush_traces, finally, return results: Celery stores SUCCESS and the result
AnaReturn ==
  /\ anaPc = "completed"
  /\ anaPc' = "done"
  /\ taskState' = "SUCCESS"
  /\ taskInfo' = "bundle"
  /\ disk' = RemoveTempDirs(disk)
  /\ anaWorker' = NoVal
  /\ UNCHANGED <<outputBase, pitchVars, lifeVars, cacheVars, svcVars, syncVars, gpuConsumers, gpuOf, storeVars, keyVars, mergeVars, apiVars, prepVars, phaseVars, anaExc, anaRaw, thr, sseVars>>

\* the record the error handler writes back: session_data with two fields set
ErrorMarkNoStatus(raw, exc) == Overlay(raw, [error |-> ErrorSummary(exc)])

ErrorMark(raw, exc) == Overlay(raw, [status |-> "error", error |-> ErrorSummary(exc)])

\* except Exception: raw = _r.get("session:{id}")
AnaErrRead ==
  /\ anaPc = "except"
  /\ IF live
       THEN anaRaw' = session /\ anaPc' = "err_write"
       ELSE anaRaw' = anaRaw /\ anaPc' = "reraise"
  /\ UNCHANGED <<extVars, storeVars, keyVars, mergeVars, apiVars, prepVars, phaseVars, anaExc, thr, taskVars, sseVars>>

\* _r.setex("session:{id}", 3600, json.dumps(session_data))
AnaErrWrite ==
  /\ anaPc = "err_write"
  /\ session' = ErrorMark(anaRaw, anaExc)
  /\ ttl' = ERROR_MARK_TTL
  /\ live' = TRUE
  /\ anaPc' = "reraise"
  /\ anaRaw' = EmptyRecord
  /\ UNCHANGED <<extVars, keyVars, mergeVars, apiVars, prepVars, phaseVars, anaExc, thr, taskVars, sseVars>>

\* raise, finally: Celery stores FAILURE and the exception
AnaReraise ==
  /\ anaPc = "reraise"
  /\ anaPc' = "failed"
  /\ taskState' = "FAILURE"
  /\ taskInfo' = anaExc
  /\ disk' = RemoveTempDirs(disk)
  /\ anaWorker' = NoVal
  /\ UNCHANGED <<outputBase, pitchVars, lifeVars, cacheVars, svcVars, syncVars, gpuConsumers, gpuOf, storeVars, keyVars, mergeVars, apiVars, prepVars, phaseVars, anaExc, anaRaw, thr, sseVars>>

\* ------------------------------------------------------------------------
\* Event stream (backend/app/routers/sse.py, _session_event_generator)
\* ------------------------------------------------------------------------
Ev(name, arg) == [name |-> name, arg |-> arg]

NothingObserved ==
  [ref |-> NoVal, tracks |-> NoVal, task |-> NoVal, status |-> NoVal, info |-> NoVal]

\* yield of the events out, in this order
Yield(out) ==
  /\ iterEvents' = iterEvents \o out
  /\ events' = IF keepLog THEN events \o out ELSE events

\* a comparison that is always true
RefStatusAlways(cur, last) == TRUE

\* current_ref_status != last_ref_status
RefStatusChanged(cur, last) == cur # last

\* tracks_ready_at and tracks_ready_at != last_tracks_ready
TracksReadyNew(at, last) == at # NoVal /\ at # last

\* the generator goes on after a terminal event
NextAfterTerminalContinue == "sleep"

\* after a terminal event: the session update, then return
NextAfterTerminal == "persist"

\* heartbeat block at the end of an iteration; out are the events of this step
FinishIteration(out) ==
  /\ IF hbTimer + 1 >= HeartbeatPolls
       THEN hbTimer' = 0 /\ Yield(Append(out, Ev("heartbeat", NoVal)))
       ELSE hbTimer' = hbTimer + 1 /\ Yield(out)
  /\ ssePc' = "sleep"

\* "Status transitions (SUCCESS / FAILURE)" for the status read in this iteration
Transition(cur, out) ==
  IF cur # lastStatus
    THEN /\ lastStatus' = cur
         /\ IF cur = "SUCCESS"
              THEN /\ Yield(Append(out, Ev("analysis_complete", taskInfo)))
                   /\ ssePc' = NextAfterTerminal
                   /\ UNCHANGED hbTimer
              ELSE IF cur = "FAILURE"
                THEN /\ Yield(Append(out, Ev("analysis_error", ExcMessage(taskInfo))))
                     /\ ssePc' = NextAfterTerminal
                     /\ UNCHANGED hbTimer
                ELSE FinishIteration(out)
    ELSE /\ UNCHANGED lastStatus
         /\ FinishIteration(out)

\* a loop condition that never fails
LoopForever(e, limit) == TRUE

\* while elapsed < MAX_DURATION
LoopContinues(e, limit) == e < limit

\* a cancellation handled like any other exception: the loop goes on
OnCancelledContinue == "sleep"

\* except asyncio.CancelledError: return (a cancellation raised by the sleep,
\* outside the try, leaves the generator as well)
OnCancelled == "cancelled"

\* stream_session_events: the session exists, the generator yields "connected"
SseConnect ==
  /\ ssePc = "off"
  /\ live
  /\ Yield(<<Ev("connected", NoVal)>>)
  /\ ssePc' = "poll"
  /\ UNCHANGED <<extVars, storeVars, keyVars, mergeVars, apiVars, prepVars, anaVars, taskVars,
                 elapsed, hbTimer, lastRef, lastStatus, lastStep, lastTracks,
                 obs, prevObs, keepLog, pollLimit, keysAtPoll, dropAt>>

\* start of an iteration: get_session, session_status and tracks_ready
SsePollSession ==
  /\ ssePc = "poll"
  /\ LoopContinues(elapsed, pollLimit)
  /\ IF ~live
       THEN /\ iterEvents' = <<Ev("error", "Session not found")>>
            /\ events' = IF keepLog THEN Append(events, Ev("error", "Session not found"))
                                     ELSE events
            /\ ssePc' = "closed"
            /\ prevObs' = obs
            /\ obs' = [NothingObserved EXCEPT !.ref = "missing"]
            /\ UNCHANGED <<hbTimer, lastRef, lastStatus, lastStep, lastTracks>>
       ELSE LET cur == session["reference_status"]
                at  == session["tracks_ready_at"]
                tid == session["analysis_task_id"]
                e1  == IF RefStatusChanged(cur, lastRef)
                         THEN <<Ev("session_status", cur)>> ELSE <<>>
                e2  == IF TracksReadyNew(at, lastTracks)
                         THEN Append(e1, Ev("tracks_ready", NoVal)) ELSE e1
                hb  == tid = NoVal /\ hbTimer + 1 >= HeartbeatPolls
                e3  == IF hb THEN Append(e2, Ev("heartbeat", NoVal)) ELSE e2
            IN /\ lastRef' = cur
               /\ lastTracks' = IF TracksReadyNew(at, lastTracks) THEN at ELSE lastTracks
               /\ prevObs' = obs
               /\ obs' = [ref |-> cur, tracks |-> at, task |-> tid,
                          status |-> NoVal, info |-> NoVal]
               /\ iterEvents' = e3
               /\ events' = IF keepLog THEN events \o e3 ELSE events
               /\ IF tid # NoVal
                    THEN ssePc' = "status" /\ UNCHANGED hbTimer
                    ELSE /\ ssePc' = "sleep"
                         /\ hbTimer' = IF hb THEN 0 ELSE hbTimer + 1
               /\ UNCHANGED <<lastStatus, lastStep>>
  /\ keysAtPoll' = <<refKey, userKey>>
  /\ UNCHANGED <<extVars, storeVars, keyVars, mergeVars, apiVars, prepVars, anaVars, taskVars,
                 elapsed, keepLog, pollLimit, dropAt>>

\* task_result.status
SseReadStatus ==
  /\ ssePc = "status"
  /\ obs' = [obs EXCEPT !.status = taskState]
  /\ IF taskState = "PROGRESS"
       THEN ssePc' = "info" /\ UNCHANGED <<events, iterEvents, hbTimer, lastStatus>>
       ELSE Transition(taskState, <<>>)
  /\ UNCHANGED <<extVars, storeVars, keyVars, mergeVars, apiVars, prepVars, anaVars, taskVars,
                 elapsed, lastRef, lastStep, lastTracks, prevObs, keepLog, pollLimit, keysAtPoll, dropAt>>

\* task_result.info, fetched again because PROGRESS is not cached; the info of
\* a failed task is an exception (no .get: AttributeError, caught by the
\* generic handler, which yields "error"), the info of a successful one is
\* the result dict, which has no "step"
SseReadInfo ==
  /\ ssePc = "info"
  /\ obs' = [obs EXCEPT !.info = taskInfo]
  /\ IF taskState = "FAILURE"
       THEN /\ Yield(<<Ev("error", "AttributeError")>>)
            /\ ssePc' = "sleep"
            /\ UNCHANGED <<hbTimer, lastStatus, lastStep>>
       ELSE LET step == IF taskState = "PROGRESS" THEN taskInfo ELSE NoVal
                e1 == IF step # lastStep
                        THEN <<Ev("analysis_progress", step)>> ELSE <<>>
            IN /\ lastStep' = step
               /\ Transition("PROGRESS", e1)
  /\ UNCHANGED <<extVars, storeVars, keyVars, mergeVars, apiVars, prepVars, anaVars, taskVars,
                 elapsed, lastRef, lastTracks, prevObs, keepLog, pollLimit, keysAtPoll, dropAt>>

\* after analysis_complete / analysis_error: update_session, return
SseTerminalWrite ==
  /\ ssePc = "persist"
  /\ IF lastStatus = "SUCCESS"
       THEN UpdateSession([status |-> "completed", results |-> taskInfo])
       ELSE UpdateSession([status |-> "error", error |-> ExcMessage(taskInfo)])
  /\ ssePc' = "closed"
  /\ UNCHANGED <<extVars, keyVars, mergeVars, apiVars, prepVars, anaVars, taskVars,
                 elapsed, hbTimer, lastRef, lastStatus, lastStep, lastTracks,
                 obs, prevObs, events, iterEvents, keepLog, pollLimit, keysAtPoll, dropAt>>

\* await asyncio.sleep(POLL_INTERVAL); elapsed += POLL_INTERVAL
SseSleep ==
  /\ ssePc = "sleep"
  /\ elapsed' = elapsed + 1
  /\ ssePc' = "poll"
  /\ UNCHANGED <<extVars, storeVars, keyVars, mergeVars, apiVars, prepVars, anaVars, taskVars,
                 hbTimer, lastRef, lastStatus, lastStep, lastTracks,
                 obs, prevObs, events, iterEvents, keepLog, pollLimit, keysAtPoll, dropAt>>

\* the while condition fails: yield "timeout"
SseTimeout ==
  /\ ssePc = "poll"
  /\ ~LoopContinues(elapsed, pollLimit)
  /\ Yield(<<Ev("timeout", NoVal)>>)
  /\ ssePc' = "closed"
  /\ UNCHANGED <<extVars, storeVars, keyVars, mergeVars, apiVars, prepVars, anaVars, taskVars,
                 elapsed, hbTimer, lastRef, lastStatus, lastStep, lastTracks,
                 obs, prevObs, keepLog, pollLimit, keysAtPoll, dropAt>>

\* the client drops the connection: the generator is cancelled where it is
\* suspended (get_session, a yield before the session update, the sleep)
SseDisconnect ==
  /\ ssePc \in {"poll", "persist", "sleep"}
  /\ ssePc' = OnCancelled
  /\ dropAt' = anaPc
  /\ UNCHANGED <<extVars, storeVars, keyVars, mergeVars, apiVars, prepVars, anaVars, taskVars,
                 elapsed, hbTimer, lastRef, lastStatus, lastStep, lastTracks,
                 obs, prevObs, events, iterEvents, keepLog, pollLimit, keysAtPoll>>

QuarterHour == 15 * 60

\* ------------------------------------------------------------------------
\* The two-tier caches: LyricsCacheService (backend/app/services/
\* lyrics_cache.py) and WordTimestampsCacheService (word_timestamps_cache.py),
\* the worker's direct writer (worker/tasks/word_timestamps_db.py) and the
\* periodic cleanup (worker/tasks/cleanup.py).  One fingerprint per class.
\* ------------------------------------------------------------------------
Classes == {"lyrics", "word_ts"}

REDIS_CACHE_TTL == 3600

POSTGRES_TTL_SYNCED == 365

POSTGRES_TTL_UNSYNCED == 90

POSTGRES_TTL_NOT_FOUND == 7

POSTGRES_TTL_MUSIXMATCH == 365

POSTGRES_TTL_WHISPER == 90

Day == 24 * 60 * 60

\* expires_at = None
Never == 0 - 1

\* what the payloads written are stored as: the sync type of lyrics
\* (not_found for a negative lookup), the source of word timestamps
Kinds(c) ==
  IF c = "lyrics" THEN {"synced", "not_found"}
  ELSE {"whisper_timestamped", "user_corrected"}

\* LyricsCacheService._get_ttl_days, WordTimestampsCacheService._get_ttl_days
TtlDays(c, kind) ==
  IF c = "lyrics"
    THEN CASE kind = "not_found" -> POSTGRES_TTL_NOT_FOUND
           [] kind = "synced"    -> POSTGRES_TTL_SYNCED
           [] OTHER              -> POSTGRES_TTL_UNSYNCED
    ELSE CASE kind = "musixmatch_word" -> POSTGRES_TTL_MUSIXMATCH
           [] kind = "user_corrected"  -> Never
           [] OTHER                    -> POSTGRES_TTL_WHISPER

\* expires_at = now + timedelta(days=ttl_days), None without a TTL
ExpiresAt(c, kind, t) ==
  IF TtlDays(c, kind) = Never THEN Never ELSE t + TtlDays(c, kind) * Day

NoEntry == [present |-> FALSE, kind |-> NoVal, ver |-> 0, exp |-> 0, until |-> 0]

\* a payload with the number of its write, the expires_at of the row it is a
\* view of and, in the hot tier, the time Redis drops the key
Entry(kind, ver, exp, until) ==
  [present |-> TRUE, kind |-> kind, ver |-> ver, exp |-> exp, until |-> until]

\* LyricsCache.is_expired: expires_at is a timestamptz column read through
\* asyncpg (alembic initial schema, database.py), an offset-aware datetime;
\* datetime.utcnow() is offset-naive, and Python raises TypeError on the
\* comparison of the two
IsExpired(e, t) ==
  IF e.exp = Never THEN "expired" ELSE "TypeError"

\* get_from_postgres.  lyrics: the row, unless is_expired is true or raises
\* (except Exception: return None).  word_ts: the row selected by
\* expires_at IS NULL OR expires_at > now
GetFromPostgres(c, e, t) ==
  IF ~e.present THEN NoEntry
  ELSE IF c = "lyrics"
    THEN IF IsExpired(e, t) = "fresh" THEN e ELSE NoEntry
    ELSE IF e.exp = Never \/ e.exp > t THEN e ELSE NoEntry

\* DELETE ... WHERE expires_at < now (and expires_at IS NOT NULL)
PastExpiry(e, t) == e.present /\ e.exp # Never /\ e.exp < t

GetIdle == [pc |-> "idle", class |-> NoVal, entry |-> NoEntry, expectVer |-> 0]

WrIdle == [pc |-> "idle", class |-> NoVal, kind |-> NoVal, ver |-> 0]

NoGet ==
  [class |-> NoVal, tier |-> NoVal, entry |-> NoEntry, at |-> 0, expectVer |-> 0,
   coldVer |-> 0]

\* what a finished get is recorded as
GetRecord(c, tier, e, ev) ==
  [class |-> c, tier |-> tier, entry |-> e, at |-> now, expectVer |-> ev,
   coldVer |-> IF cold[c].present THEN cold[c].ver ELSE 0]

\* the payload a get that starts now is to return: that of the last set that
\* wrote both tiers, while its entry is within its TTL
ExpectedVer(c) ==
  IF expect[c].present /\ (expect[c].exp = Never \/ now < expect[c].exp)
    THEN expect[c].ver ELSE 0

\* a write to class c starts: a get of c in progress is no longer held to
\* the payload of the earlier set
AfterWrite(g, c) == IF g.class = c THEN [g EXCEPT !.expectVer = 0] ELSE g

CacheIdle ==
  /\ now = 0
  /\ hot = [c \in Classes |-> NoEntry]
  /\ cold = [c \in Classes |-> NoEntry]
  /\ getPc = GetIdle
  /\ wrPc = WrIdle
  /\ lastGet = NoGet
  /\ expect = [c \in Classes |-> NoEntry]
  /\ nextVer = 1
  /\ advances = 0
  /\ reaperRuns = 0

OtherVars ==
  <<diskVars, gpuVars, pitchVars, syncVars, lifeVars, sttVars, juryVars, reapVars, reqVars, stoVars,
    scoreVars, origVars, storeVars, keyVars, mergeVars, apiVars, prepVars, anaVars, taskVars,
    sseVars>>

\* get: get_from_redis; a hit is returned
GetHot(c) ==
  /\ getPc.pc = "idle"
  /\ IF hot[c].present
       THEN /\ lastGet' = GetRecord(c, "hot", hot[c], ExpectedVer(c))
            /\ UNCHANGED getPc
       ELSE /\ getPc' = [pc |-> "cold", class |-> c, entry |-> NoEntry,
                         expectVer |-> ExpectedVer(c)]
            /\ UNCHANGED lastGet
  /\ UNCHANGED <<now, hot, cold, wrPc, expect, nextVer, advances, reaperRuns, OtherVars, invalidated>>

\* get: get_from_postgres; a miss is returned
GetCold ==
  /\ getPc.pc = "cold"
  /\ LET e == GetFromPostgres(getPc.class, cold[getPc.class], now) IN
       IF e.present
         THEN /\ getPc' = [getPc EXCEPT !.pc = "backfill", !.entry = e]
              /\ UNCHANGED lastGet
         ELSE /\ lastGet' = GetRecord(getPc.class, "none", NoEntry, getPc.expectVer)
              /\ getPc' = GetIdle
  /\ UNCHANGED <<now, hot, cold, wrPc, expect, nextVer, advances, reaperRuns, OtherVars, invalidated>>

\* get: set_in_redis(data) with REDIS_CACHE_TTL (a Redis error is swallowed),
\* return data
GetBackfill ==
  /\ getPc.pc = "backfill"
  /\ \E ok \in BOOLEAN :
       hot' = IF ok
                THEN [hot EXCEPT ![getPc.class] =
                        [getPc.entry EXCEPT !.until = now + REDIS_CACHE_TTL]]
                ELSE hot
  /\ lastGet' = GetRecord(getPc.class, "cold", getPc.entry, getPc.expectVer)
  /\ getPc' = GetIdle
  /\ UNCHANGED <<now, cold, wrPc, expect, nextVer, advances, reaperRuns, OtherVars, invalidated>>

\* set: set_in_redis(cache_data); a Redis error is swallowed
SetHot(c, kind) ==
  /\ wrPc.pc = "idle"
  /\ nextVer <= MaxWrites
  /\ kind \in Kinds(c)
  /\ \E ok \in BOOLEAN :
       /\ hot' = IF ok
                   THEN [hot EXCEPT ![c] = Entry(kind, nextVer, ExpiresAt(c, kind, now),
                                                 now + REDIS_CACHE_TTL)]
                   ELSE hot
       /\ wrPc' = [pc |-> IF ok THEN "set_cold" ELSE "set_cold_only", class |-> c,
                   kind |-> kind, ver |-> nextVer]
  /\ nextVer' = nextVer + 1
  /\ expect' = [expect EXCEPT ![c] = NoEntry]
  /\ getPc' = AfterWrite(getPc, c)
  /\ invalidated' = [invalidated EXCEPT ![c] = FALSE]
  /\ UNCHANGED <<now, cold, lastGet, advances, reaperRuns, OtherVars>>

\* set: set_in_postgres, INSERT ... ON CONFLICT DO UPDATE; a database error
\* is swallowed
SetCold ==
  /\ wrPc.pc \in {"set_cold", "set_cold_only"}
  /\ LET c == wrPc.class
         e == Entry(wrPc.kind, wrPc.ver, ExpiresAt(c, wrPc.kind, now), 0)
     IN \E ok \in BOOLEAN :
          /\ cold' = IF ok THEN [cold EXCEPT ![c] = e] ELSE cold
          /\ expect' = IF ok /\ wrPc.pc = "set_cold"
                         THEN [expect EXCEPT ![c] = e] ELSE expect
  /\ wrPc' = WrIdle
  /\ UNCHANGED <<now, hot, getPc, lastGet, nextVer, advances, reaperRuns, OtherVars, invalidated>>

\* invalidate: invalidate_redis
InvHot(c) ==
  /\ wrPc.pc = "idle"
  /\ hot[c].present \/ cold[c].present
  /\ hot' = [hot EXCEPT ![c] = NoEntry]
  /\ wrPc' = [pc |-> "inv_cold", class |-> c, kind |-> NoVal, ver |-> 0]
  /\ expect' = [expect EXCEPT ![c] = NoEntry]
  /\ getPc' = AfterWrite(getPc, c)
  /\ UNCHANGED <<now, cold, lastGet, nextVer, advances, reaperRuns, OtherVars, invalidated>>

\* invalidate: invalidate_postgres
InvCold ==
  /\ wrPc.pc = "inv_cold"
  /\ cold' = [cold EXCEPT ![wrPc.class] = NoEntry]
  /\ wrPc' = WrIdle
  /\ invalidated' = [invalidated EXCEPT ![wrPc.class] = TRUE]
  /\ UNCHANGED <<now, hot, getPc, lastGet, expect, nextVer, advances, reaperRuns, OtherVars>>

\* store_word_timestamps: the worker's INSERT ... ON CONFLICT DO UPDATE with
\* expires_at = now + POSTGRES_TTL_WHISPER days whatever the source; Redis is
\* not touched
StoreWordTimestamps(kind) ==
  /\ nextVer <= MaxWrites
  /\ kind \in Kinds("word_ts")
  /\ cold' = [cold EXCEPT !["word_ts"] =
                Entry(kind, nextVer, now + POSTGRES_TTL_WHISPER * Day, 0)]
  /\ nextVer' = nextVer + 1
  /\ expect' = [expect EXCEPT !["word_ts"] = NoEntry]
  /\ getPc' = AfterWrite(getPc, "word_ts")
  /\ invalidated' = [invalidated EXCEPT !["word_ts"] = FALSE]
  /\ UNCHANGED <<now, hot, wrPc, lastGet, advances, reaperRuns, OtherVars>>

\* POST /lyrics-cache/cleanup: lyrics_cache_service.cleanup_expired()
CleanupExpired ==
  /\ PastExpiry(cold["lyrics"], now)
  /\ cold' = [cold EXCEPT !["lyrics"] = NoEntry]
  /\ UNCHANGED <<now, hot, getPc, wrPc, lastGet, expect, nextVer, advances, reaperRuns,
                 OtherVars, invalidated>>

\* cleanup_session_files, run by Celery beat: the blobs of sessions older
\* than SESSION_MAX_AGE, the temporary directories not modified for as long,
\* the local cache; neither cache table is touched
SESSION_MAX_AGE == 7200

\* a relative path of the blob store
BlobPath(root, dir, file) == [root |-> root, dir |-> dir, file |-> file]

\* _session_storage_paths
SessionStoragePaths(id) ==
  { BlobPath("sessions", id, "user_recording.webm"),
    BlobPath("sessions", id, "user_recording.wav"),
    BlobPath("sessions", id \o "_user", "vocals.wav"),
    BlobPath("sessions", id \o "_user", "instrumentals.wav"),
    BlobPath("sessions", id \o "_ref", "vocals.wav"),
    BlobPath("sessions", id \o "_ref", "instrumentals.wav") }

\* the other sessions a deployment can hold: started earlier than the
\* session of the model by the given number of seconds
OtherSessions == [id : {"s2"}, older : {0, 4 * QuarterHour}]

\* the session:* keys the scan finds, with the age of each record and
\* whether analyze_performance is queued or running for it
Scanned ==
  (IF live THEN {[id |-> SessionId, age |-> age,
                  inflight |-> anaPc \notin {"none", "done", "failed"}]}
           ELSE {})
  \cup { [id |-> o.id, age |-> age + o.older, inflight |-> FALSE] :
           o \in {x \in others : age + x.older < SESSION_TTL} }

\* "if not created_at or time.time() - float(created_at) < SESSION_MAX_AGE:
\* continue"
Skipped(rec) == rec.age < SESSION_MAX_AGE

\* cleanup_session_files: the blobs of the sessions that are not skipped,
\* then the temporary directories whose mtime is before the cutoff
Reaper ==
  /\ reaperRuns < MaxReaperRuns
  /\ reaperRuns' = reaperRuns + 1
  /\ reaped' = reaped \cup UNION
       { { [path |-> q, id |-> rec.id, age |-> rec.age, inflight |-> rec.inflight] :
             q \in SessionStoragePaths(rec.id) } :
           rec \in {x \in Scanned : ~Skipped(x)} }
  /\ \E old \in SUBSET (disk \cap TempDirs) : disk' = disk \ old
  /\ UNCHANGED <<now, hot, cold, getPc, wrPc, lastGet, expect, nextVer, advances>>
  /\ UNCHANGED <<outputBase, gpuVars, pitchVars, syncVars, lifeVars, sttVars, juryVars, others,
                 reqVars, stoVars, scoreVars, invVars, origVars, storeVars, keyVars,
                 mergeVars, apiVars, prepVars, anaVars, taskVars, sseVars>>

\* the rows that expire
Expiring == {c \in Classes : cold[c].present /\ cold[c].exp # Never}

\* the steps the time advances by: the hot-tier TTL, or up to a quarter of
\* an hour before or after a row expires
AdvanceSteps ==
  {REDIS_CACHE_TTL}
    \cup {d \in {cold[c].exp - QuarterHour - now : c \in Expiring}
                 \cup {cold[c].exp + QuarterHour - now : c \in Expiring} : d > 0}

\* time passes between requests; Redis drops the keys whose TTL has run out
Advance ==
  /\ advances < MaxAdvances
  /\ getPc.pc = "idle" /\ wrPc.pc = "idle"
  /\ \E d \in AdvanceSteps :
       /\ now' = now + d
       /\ hot' = [c \in Classes |->
                    IF hot[c].present /\ hot[c].until <= now + d THEN NoEntry ELSE hot[c]]
  /\ advances' = advances + 1
  /\ UNCHANGED <<cold, getPc, wrPc, lastGet, expect, nextVer, reaperRuns, OtherVars, invalidated>>

CacheNext ==
  \/ (\E c \in Classes : GetHot(c)) \/ GetCold \/ GetBackfill
  \/ (\E c \in Classes : \E k \in Kinds(c) : SetHot(c, k)) \/ SetCold
  \/ (\E c \in Classes : InvHot(c)) \/ InvCold
  \/ (\E k \in Kinds("word_ts") : StoreWordTimestamps(k))
  \/ CleanupExpired \/ Reaper \/ Advance

\* ------------------------------------------------------------------------
\* Speech to text: do_transcribe_audio as thread D of analyze_performance
\* calls it, and the Celery task transcribe_audio around the same function
\* (worker/tasks/transcription.py).
\* ------------------------------------------------------------------------
MAX_RETRIES == 3

RETRY_BACKOFF == 30

RETRY_BACKOFF_MAX == 120

SttCallers == {"thread_D", "transcribe_audio"}

SttConfigs == [groq : BOOLEAN, local : BOOLEAN]

\* production: GROQ_API_KEY set, WHISPER_LOCAL_FALLBACK off
SttProduction == [groq |-> TRUE, local |-> FALSE]

NoRun == [t \in Tiers |-> NoVal]

NoCalls == [t \in Tiers |-> 0]

Pow2(n) == IF n = 0 THEN 1 ELSE IF n = 1 THEN 2 ELSE IF n = 2 THEN 4 ELSE 8

\* Celery's get_exponential_backoff_interval(retry_backoff, retries,
\* retry_backoff_max): the countdown of retry number n + 1, before the jitter
\* that draws from 0 .. countdown
RetryBackoff(n) ==
  IF RETRY_BACKOFF * Pow2(n) < RETRY_BACKOFF_MAX
    THEN RETRY_BACKOFF * Pow2(n) ELSE RETRY_BACKOFF_MAX

\* a chain of tiers that leaves Groq out: after tier t local Whisper or the
\* raise
NextTierSkipGroq(t, cfg) ==
  IF t < 3 /\ cfg.local THEN "tier3" ELSE "raise"

\* do_transcribe_audio, inside "except Exception" of tier 1: what comes after
\* tier t has failed: Groq if GROQ_API_KEY, local Whisper if
\* WHISPER_LOCAL_FALLBACK, else raise TranscriptionError
NextTier(t, cfg) ==
  IF t = 1 /\ cfg.groq THEN "tier2"
  ELSE IF t < 3 /\ cfg.local THEN "tier3"
  ELSE "raise"

SttIdle ==
  /\ sttPc = "idle"
  /\ sttCaller = NoVal
  /\ sttRun = NoRun
  /\ sttData = NoVal
  /\ sttResult = NoVal
  /\ sttCalls = NoCalls
  /\ sttRetries = 0
  /\ sttDelays = <<>>

SttOther ==
  <<diskVars, gpuVars, pitchVars, syncVars, lifeVars, cacheVars, storeVars, keyVars, mergeVars,
    apiVars, prepVars, anaPc, anaExc, anaRaw, thr, taskVars, sseVars, npzSeen, refPitch, thrDur, waited,
    threadTimes, serviceOutcomes, sttConfig, juryVars, reapVars, reqVars, stoVars, scoreVars,
    invVars, origVars>>

\* _whisper_lyrics calls do_transcribe_audio directly; a worker runs the task
\* transcribe_audio
SttCall(caller) ==
  /\ sttPc = "idle"
  /\ sttResult = NoVal
  /\ sttPc' = "tier1"
  /\ sttCaller' = caller
  /\ UNCHANGED <<sttRun, sttData, sttResult, sttCalls, sttRetries, sttDelays, transcription,
                 lyricsSource, SttOther>>

\* one call to a tier: _transcribe_via_http, _transcribe_via_groq or
\* _transcribe_via_local returns the data, or raises and the next tier is
\* chosen
SttTier(t) ==
  /\ sttPc = <<"tier1", "tier2", "tier3">>[t]
  /\ sttCalls' = [sttCalls EXCEPT ![t] = @ + 1]
  /\ \E ok \in serviceOutcomes :
       IF ok
         THEN /\ sttRun' = [sttRun EXCEPT ![t] = "ok"]
              /\ sttData' = <<"text_http", "text_groq", "text_local">>[t]
              /\ sttPc' = "save"
         ELSE /\ sttRun' = [sttRun EXCEPT ![t] = "fail"]
              /\ sttData' = NoVal
              /\ sttPc' = NextTier(t, sttConfig)
  /\ UNCHANGED <<sttCaller, sttResult, sttRetries, sttDelays, transcription, lyricsSource,
                 SttOther>>

\* data is written to transcription.json and returned
SttSave ==
  /\ sttPc = "save"
  /\ sttResult' = sttData
  /\ sttPc' = "returned"
  /\ UNCHANGED <<sttCaller, sttRun, sttData, sttCalls, sttRetries, sttDelays, transcription,
                 lyricsSource, SttOther>>

\* raise TranscriptionError.  In the task, autoretry_for schedules the whole
\* function again, max_retries times; thread D gets the exception
SttRaise ==
  /\ sttPc = "raise"
  /\ IF sttCaller = "transcribe_audio" /\ sttRetries < MAX_RETRIES
       THEN /\ sttRetries' = sttRetries + 1
            /\ sttDelays' = Append(sttDelays, RetryBackoff(sttRetries))
            /\ sttRun' = NoRun
            /\ sttPc' = "tier1"
            /\ UNCHANGED sttResult
       ELSE /\ sttResult' = "TranscriptionError"
            /\ sttPc' = "returned"
            /\ UNCHANGED <<sttRun, sttRetries, sttDelays>>
  /\ UNCHANGED <<sttCaller, sttData, sttCalls, transcription, lyricsSource, SttOther>>

\* thread D returns (trans, lr) or raises; fut_whisper.result(timeout=120)
\* and its "except Exception" give the pipeline its transcription
SttThreadDReturn ==
  /\ sttPc = "returned"
  /\ sttCaller = "thread_D"
  /\ \E found \in serviceOutcomes :
       /\ transcription' = Transcription(sttResult)
       /\ lyricsSource' = LyricsSource(sttResult, GetLyrics(found))
  /\ sttPc' = "done"
  /\ UNCHANGED <<sttCaller, sttRun, sttData, sttResult, sttCalls, sttRetries, sttDelays,
                 SttOther>>

\* the task ends in SUCCESS with the result or in FAILURE with the exception
SttTaskReturn ==
  /\ sttPc = "returned"
  /\ sttCaller = "transcribe_audio"
  /\ sttPc' = "done"
  /\ UNCHANGED <<sttCaller, sttRun, sttData, sttResult, sttCalls, sttRetries, sttDelays,
                 transcription, lyricsSource, SttOther>>

SttNext ==
  \/ (\E c \in SttCallers : SttCall(c))
  \/ (\E t \in Tiers : SttTier(t))
  \/ SttSave \/ SttRaise \/ SttThreadDReturn \/ SttTaskReturn

\* ------------------------------------------------------------------------
\* The jury: generate_jury_comments, three _generate_comment_async coroutines
\* gathered on one event loop (worker/tasks/scoring.py).
\* ------------------------------------------------------------------------
JURY_PERSONAS == <<"Le Cassant", "L'Encourageant", "Le Technique">>

Personas == {JURY_PERSONAS[i] : i \in 1..3}

JuryConfigs == [key : BOOLEAN, fallback : BOOLEAN]

\* LITELLM_API_KEY set, LITELLM_JURY_FALLBACK_MODEL # LITELLM_JURY_MODEL
JuryProduction == [key |-> TRUE, fallback |-> TRUE]

JuryScores == {0, 50, 69, 70, 100}

\* what one POST to the proxy gives: an exception (HTTP error, timeout,
\* malformed body) or the content of the first choice
Responses == {"error", "text", "think_text", "think_only", "think_open", "blank"}

\* strip(), the two re.sub that remove <think> blocks, closed or cut by
\* max_tokens, strip()
StripThink(raw) == IF raw \in {"text", "think_text"} THEN "comment" ELSE ""

\* _litellm_call(..., max_retries): 2 by default, 1 for the fallback model
MaxRetriesOf(tier) == IF tier = 1 THEN 2 ELSE 1

\* _get_vote
GetVote(persona, score) ==
  IF persona = "Le Cassant" THEN (IF score >= 70 THEN "yes" ELSE "no")
  ELSE IF persona = "L'Encourageant" THEN (IF score >= 40 THEN "yes" ELSE "no")
  ELSE (IF score >= 55 THEN "yes" ELSE "no")

\* _heuristic_comment: one of two fixed sentences per persona
HeuristicComment(persona, score) ==
  IF persona = "Le Cassant" THEN (IF score >= 70 THEN "Pas mal" ELSE "Il y a du travail")
  ELSE IF persona = "L'Encourageant" THEN (IF score >= 50 THEN "Bravo" ELSE "L'important")
  ELSE (IF score >= 60 THEN "Techniquement" ELSE "Quelques points")

NoDraft == [comment |-> "", model |-> ""]

\* tier 3 left out: the draft is returned as it is
Tier3Skipped(draft, persona, score) == draft

\* "if not comment": the heuristic comment, model_used = "heuristic"
Tier3(draft, persona, score) ==
  IF draft.comment = ""
    THEN [comment |-> HeuristicComment(persona, score), model |-> "heuristic"]
    ELSE draft

\* where _generate_comment_async goes when _litellm_call of a tier returned
AfterTier(tier, comment, cfg) ==
  IF tier = 1 /\ comment = "" /\ cfg.fallback THEN "tier2" ELSE "tier3"

JuryIdle ==
  /\ juryScore = 0
  /\ juryPc = [p \in Personas |-> "idle"]
  /\ juryTry = [p \in Personas |-> 0]
  /\ juryDraft = [p \in Personas |-> NoDraft]
  /\ juryCalls = [p \in Personas |-> [t \in {1, 2} |-> 0]]
  /\ juryOut = <<>>

JuryOther ==
  <<diskVars, gpuVars, pitchVars, syncVars, lifeVars, cacheVars, sttVars, storeVars, keyVars,
    mergeVars, apiVars, prepVars, anaVars, taskVars, sseVars, juryConfig, reapVars, reqVars,
    stoVars, scoreVars, invVars, origVars>>

\* generate_jury_comments: asyncio.run(_generate_all_comments_async(...)),
\* one coroutine per persona
JuryStart ==
  /\ \A p \in Personas : juryPc[p] = "idle"
  /\ juryOut = <<>>
  /\ juryScore' \in JuryScores
  /\ juryPc' = [p \in Personas |-> "tier1"]
  /\ UNCHANGED <<juryTry, juryDraft, juryCalls, juryOut, JuryOther>>

\* _litellm_call without LITELLM_API_KEY: ("", "") at once
JuryNoKey(p) ==
  /\ juryPc[p] \in {"tier1", "tier2"}
  /\ ~juryConfig.key
  /\ juryDraft' = [juryDraft EXCEPT ![p] = NoDraft]
  /\ juryPc' = [juryPc EXCEPT ![p] = AfterTier(IF @ = "tier1" THEN 1 ELSE 2, "", juryConfig)]
  /\ UNCHANGED <<juryScore, juryTry, juryCalls, juryOut, JuryOther>>

\* one pass of the loop of _litellm_call: the POST; a comment is returned, an
\* exception or an empty comment leads to the next attempt after the sleep
\* or, after the last one, to ("", "")
JuryAttempt(p) ==
  /\ juryPc[p] \in {"tier1", "tier2"}
  /\ juryConfig.key
  /\ LET tier == IF juryPc[p] = "tier1" THEN 1 ELSE 2 IN
       /\ juryCalls' = [juryCalls EXCEPT ![p][tier] = @ + 1]
       /\ \E raw \in Responses :
            LET comment == StripThink(raw) IN
              IF comment # ""
                THEN /\ juryDraft' = [juryDraft EXCEPT ![p] =
                                        [comment |-> comment,
                                         model |-> <<"litellm/1", "litellm/2">>[tier]]]
                     /\ juryPc' = [juryPc EXCEPT ![p] = AfterTier(tier, comment, juryConfig)]
                     /\ juryTry' = [juryTry EXCEPT ![p] = 0]
                ELSE IF juryTry[p] < MaxRetriesOf(tier)
                  THEN /\ juryTry' = [juryTry EXCEPT ![p] = @ + 1]
                       /\ UNCHANGED <<juryDraft, juryPc>>
                  ELSE /\ juryDraft' = [juryDraft EXCEPT ![p] = NoDraft]
                       /\ juryPc' = [juryPc EXCEPT ![p] = AfterTier(tier, "", juryConfig)]
                       /\ juryTry' = [juryTry EXCEPT ![p] = 0]
  /\ UNCHANGED <<juryScore, juryOut, JuryOther>>

\* tier 3, _get_vote and the return of the record
JuryFinish(p) ==
  /\ juryPc[p] = "tier3"
  /\ juryDraft' = [juryDraft EXCEPT ![p] = Tier3(@, p, juryScore)]
  /\ juryPc' = [juryPc EXCEPT ![p] = "done"]
  /\ UNCHANGED <<juryScore, juryTry, juryCalls, juryOut, JuryOther>>

\* asyncio.gather returns the records in the order of JURY_PERSONAS
JuryGather ==
  /\ \A p \in Personas : juryPc[p] = "done"
  /\ juryOut = <<>>
  /\ juryOut' = [i \in 1..3 |->
                   [persona |-> JURY_PERSONAS[i],
                    comment |-> juryDraft[JURY_PERSONAS[i]].comment,
                    vote |-> GetVote(JURY_PERSONAS[i], juryScore),
                    model |-> juryDraft[JURY_PERSONAS[i]].model]]
  /\ UNCHANGED <<juryScore, juryPc, juryTry, juryDraft, juryCalls, JuryOther>>

JuryNext ==
  \/ JuryStart
  \/ (\E p \in Personas : JuryNoKey(p) \/ JuryAttempt(p) \/ JuryFinish(p))
  \/ JuryGather

\* ---------------------------------------------------------------------
\* The blob-store client of a worker process (storage_client.py), as
\* analyze_performance uses it: the coordinator resolves the user
\* recording, then threads A and B of phase 2 upload and download.
\* ---------------------------------------------------------------------

\* the requests a thread of phase 2 makes to the blob store
MaxStorageCalls == 2

StThreads == {"main", "A", "B"}

StAt(t, at) == [stPc EXCEPT ![t].at = at]

StOther ==
  <<diskVars, gpuVars, pitchVars, syncVars, lifeVars, cacheVars, sttVars, juryVars, reapVars,
    reqVars, scoreVars, invVars, origVars, storeVars, keyVars, mergeVars, apiVars, prepVars,
    anaVars, taskVars, sseVars, stPathKind>>

\* _resolve_audio on the coordinator: a storage URL is downloaded, a
\* local path is returned as it is
StResolve ==
  /\ stPc["main"].at = "idle"
  /\ stPc' = StAt("main", IF stPathKind = "url" THEN "call" ELSE "forked")
  /\ UNCHANGED <<stClient, stLive, stHeld, StOther>>

\* pool.submit of threads A and B: _upload_pair and _separate_ref begin
StFanOut ==
  /\ stPc["main"].at \in {"forked", "used"}
  /\ stPc["A"].at = "idle" /\ stPc["B"].at = "idle"
  /\ stPc' = [t \in StThreads |->
               IF t = "main" THEN [stPc[t] EXCEPT !.at = "waiting"]
                             ELSE [stPc[t] EXCEPT !.at = "call"]]
  /\ UNCHANGED <<stClient, stLive, stHeld, StOther>>

\* _get_client: "if self._client is None or self._client.is_closed"
StGetClientTest(t) ==
  /\ stPc[t].at = "call"
  /\ stPc' = StAt(t, IF stClient = 0 THEN "create" ELSE "return")
  /\ UNCHANGED <<stClient, stLive, stHeld, StOther>>

\* _get_client: "self._client = httpx.Client(...)"
StGetClientCreate(t) ==
  /\ stPc[t].at = "create"
  /\ stClient' = Cardinality(stLive) + 1
  /\ stLive' = stLive \cup {stClient'}
  /\ stPc' = StAt(t, "return")
  /\ UNCHANGED <<stHeld, StOther>>

\* _get_client: "return self._client"; the request of the caller begins
StGetClientReturn(t) ==
  /\ stPc[t].at = "return"
  /\ stHeld' = [stHeld EXCEPT ![t] = stClient]
  /\ stPc' = StAt(t, "request")
  /\ UNCHANGED <<stClient, stLive, StOther>>

\* the request is answered: the thread makes its next request or ends
StRequestDone(t) ==
  /\ stPc[t].at = "request"
  /\ stHeld' = [stHeld EXCEPT ![t] = 0]
  /\ stPc' = [stPc EXCEPT ![t] =
       [at |-> IF t = "main" THEN "used"
               ELSE IF stPc[t].calls + 1 < MaxStorageCalls THEN "call" ELSE "end",
        calls |-> stPc[t].calls + 1]]
  /\ UNCHANGED <<stClient, stLive, StOther>>

\* the httpx clients that self._client or a running request refers to
LiveClients == ({stClient} \cup {stHeld[t] : t \in StThreads}) \ {0}

StorageNext ==
  \/ StResolve
  \/ StFanOut
  \/ \E t \in StThreads :
       \/ StGetClientTest(t)
       \/ StGetClientCreate(t)
       \/ StGetClientReturn(t)
       \/ StRequestDone(t)

\* ---------------------------------------------------------------------
\* The overall score (worker/tasks/scoring.py, do_generate_feedback).
\* The accuracies are floats rounded to one decimal, "round(score, 1)";
\* they are kept here as integers, in tenths of a point.
\* ---------------------------------------------------------------------

\* the accuracies an analysis can have, in tenths
ScoreInputs == {0, 90, 333, 500, 990, 1000}

\* pitch_accuracy * 0.4 + rhythm_accuracy * 0.3 + lyrics_accuracy * 0.3,
\* in hundredths of a point
Weighted(in) == 4 * in[1] + 3 * in[2] + 3 * in[3]

\* overall_score = int(...): the fraction is cut off.  The sum is taken
\* exactly; the sum of the doubles can lie just below it.
OverallScore(in) == Weighted(in) \div 100

ScoreOther ==
  <<diskVars, gpuVars, pitchVars, syncVars, lifeVars, cacheVars, sttVars, juryVars, reapVars,
    reqVars, stoVars, invVars, origVars, storeVars, keyVars, mergeVars, apiVars, prepVars,
    anaVars, taskVars, sseVars, scoreIn>>

\* do_generate_feedback, up to the overall score
Score ==
  /\ scoreIn # <<>> /\ scoreOut = <<>>
  /\ scoreOut' = <<OverallScore(scoreIn)>>
  /\ UNCHANGED ScoreOther

\* ------------------------------------------------------------------------
\* Specifications
\* ------------------------------------------------------------------------
NoMerge ==
  /\ mPc = [c \in Callers |-> "idle"]
  /\ mPatch = [c \in Callers |-> [status |-> "created"]]
  /\ applied = <<>>
  /\ clock = 0

Idle ==
  /\ fbUsed = FALSE /\ upPc = "idle" /\ upCount = 0 /\ saPc = "idle" /\ gasPc = "idle"
  /\ grPc = "idle" /\ grResp = NoVal
  /\ prepPc = "idle" /\ prepCached = FALSE
  /\ prepUrls = NoVal /\ prepRet = <<>> /\ prepRuns = 0 /\ sepCount = 0 /\ pitchCount = 0
  /\ anaPc = "none" /\ anaExc = NoVal /\ anaRaw = EmptyRecord
  /\ thr = "idle"
  /\ disk = {}
  /\ anaWorker = NoVal
  /\ pitchCalls = {}
  /\ syncResult = NoVal /\ scoringOffset = <<>> /\ autoSync = NoVal
  /\ age = 0
  /\ CacheIdle
  /\ SttIdle
  /\ JuryIdle
  /\ reaped = {}
  /\ upResp = 0 /\ saCount = 0 /\ saJob = 0 /\ anaJobs = 0
  /\ stPc = [t \in {"main", "A", "B"} |-> [at |-> "idle", calls |-> 0]]
  /\ stClient = 0 /\ stLive = {}
  /\ stHeld = [t \in {"main", "A", "B"} |-> 0]
  /\ scoreOut = <<>>
  /\ invalidated = [c \in {"lyrics", "word_ts"} |-> FALSE]
  /\ npzSeen = NoVal /\ refPitch = NoVal /\ thrDur = NoDur /\ waited = 0
  /\ transcription = NoVal /\ lyricsSource = NoVal
  /\ taskState = "PENDING" /\ taskInfo = NoVal
  /\ ssePc = "off" /\ elapsed = 0 /\ hbTimer = 0
  /\ lastRef = NoVal /\ lastStatus = NoVal /\ lastStep = NoVal /\ lastTracks = NoVal
  /\ obs = NothingObserved /\ prevObs = NothingObserved
  /\ iterEvents = <<>> /\ events = <<>>
  /\ refKey = 0 /\ userKey = 0 /\ keysAtPoll = <<0, 0>> /\ dropAt = NoVal

\* the state start_session leaves: set_session(..., ttl=10800), reference_status
\* "pending" with the background task scheduled when the YouTube match is good
\* enough, "needs_fallback" without it otherwise
Started(refStatuses) ==
  /\ \E rs \in refStatuses :
       /\ session = Overlay(EmptyRecord, [status |-> "created", reference_status |-> rs])
       /\ bgPc = IF rs = "pending" THEN "mark" ELSE "idle"
  /\ prior = session
  /\ live = TRUE
  /\ ttl = SESSION_TTL
  /\ NoMerge
  /\ Idle

ClientNext ==
  \/ BgMarkReady \/ BgSendTask \/ BgFail
  \/ UploadBegin \/ UploadStore
  \/ StartAnalysisBegin \/ StartAnalysisStatus \/ StartAnalysisSend \/ StartAnalysisStore

StatusNext == AnalysisStatusRead \/ AnalysisStatusTask \/ AnalysisStatusWrite

ResultsNext == GetResultsRead \/ GetResultsTask \/ GetResultsWrite

PrepNext ==
  \/ PrepCheckCache \/ PrepDownloadCached \/ PrepSeparate \/ PrepNotify \/ PrepPitch
  \/ PrepFail

PrepColdNext == PrepCheckCache \/ PrepSeparate \/ PrepNotify \/ PrepPitch

AnaRunNext ==
  \/ AnaPickup \/ AnaStep \/ AnaFanOut \/ ThreadUploadNotify \/ ThreadUploadRaise
  \/ AnaJoin \/ AnaCrepeRefProbe \/ AnaCrepeRefExtract \/ AnaReturn

AnaFailNext ==
  \/ AnaStepFail \/ (\E t \in {"B", "C"} : AnaJoinFail(t))
  \/ AnaErrRead \/ AnaErrWrite \/ AnaReraise

StreamNext ==
  \/ SseConnect \/ SsePollSession \/ SseReadStatus \/ SseReadInfo
  \/ SseTerminalWrite \/ SseSleep \/ SseTimeout

\* --- API handlers polled by the client, both worker tasks, no event stream,
\* --- a blob store that takes every upload
Init ==
  /\ Started({"pending", "needs_fallback"})
  /\ cacheStems \in {{}, Stems}
  /\ cachePitch \in {"absent", "valid"}
  /\ uploadOutcomes = {TRUE}
  /\ threadTimes = QuickThread
  /\ outputBase = OUTPUT_BASE
  /\ pitchParams = CallerParams
  /\ sttConfig = SttProduction
  /\ juryConfig = JuryProduction
  /\ others = {}
  /\ triggerLimit = 1
  /\ stPathKind = "url"
  /\ scoreIn = <<>>
  /\ refOriginals = {ReferencePathFile}
  /\ syncOutcomes = ClearSync
  /\ gpuConsumers = {PoolWorker}
  /\ gpuOf = [w \in {HeavyWorker, PoolWorker} |-> w]
  /\ serviceOutcomes = {TRUE}
  /\ keepLog = FALSE
  /\ pollLimit = MaxPolls

Next ==
  \/ ClientNext \/ SetFallbackSource \/ StatusNext
  \/ PrepNext \/ AnaRunNext \/ AnaFailNext

Spec == Init /\ [][Next]_vars

\* a quarter of an hour passes while no request and no task of the session is
\* in progress: Redis counts the TTL of the key down and deletes the key when
\* it reaches 0
Elapse ==
  /\ age < MaxQuarters * QuarterHour
  /\ bgPc \in {"idle", "done"} /\ upPc = "idle" /\ saPc \in {"idle", "done"}
  /\ gasPc = "idle" /\ grPc = "idle"
  /\ anaPc \in {"none", "done", "failed"}
  /\ age' = age + QuarterHour
  /\ IF live /\ ttl # -1
       THEN IF ttl <= QuarterHour
              THEN live' = FALSE /\ ttl' = 0 /\ UNCHANGED session
              ELSE ttl' = ttl - QuarterHour /\ UNCHANGED <<session, live>>
       ELSE UNCHANGED storeVars
  /\ UNCHANGED <<diskVars, gpuVars, pitchVars, syncVars, cacheVars, svcVars, keyVars, mergeVars, apiVars,
                 prepVars, anaVars, taskVars, sseVars>>

\* --- two concurrent update_session calls on one session, while time passes
InitMerge ==
  /\ session \in PriorRecords
  /\ prior = session
  /\ live = TRUE
  /\ ttl \in {-1, 1, SESSION_TTL}
  /\ mPc = [c \in Callers |-> "call"]
  /\ mPatch \in [Callers -> ProgramPatches]
  /\ applied = <<>>
  /\ clock = 0
  /\ bgPc = "idle"
  /\ cacheStems = {}
  /\ cachePitch = "absent"
  /\ uploadOutcomes = {TRUE}
  /\ threadTimes = QuickThread
  /\ outputBase = OUTPUT_BASE
  /\ pitchParams = CallerParams
  /\ sttConfig = SttProduction
  /\ juryConfig = JuryProduction
  /\ others = {}
  /\ triggerLimit = 1
  /\ stPathKind = "url"
  /\ scoreIn = <<>>
  /\ refOriginals = {ReferencePathFile}
  /\ syncOutcomes = ClearSync
  /\ gpuConsumers = {PoolWorker}
  /\ gpuOf = [w \in {HeavyWorker, PoolWorker} |-> w]
  /\ serviceOutcomes = {TRUE}
  /\ keepLog = FALSE
  /\ pollLimit = MaxPolls
  /\ Idle

MergeNext == (\E c \in Callers : MergeCall(c)) \/ Tick

MergeSpec == InitMerge /\ [][MergeNext]_vars

\* --- the event stream beside upload, start_analysis and analyze_performance
InitStream ==
  /\ Started({"pending"})
  /\ cacheStems = {}
  /\ cachePitch = "absent"
  /\ uploadOutcomes = {TRUE}
  /\ threadTimes = QuickThread
  /\ outputBase = OUTPUT_BASE
  /\ pitchParams = CallerParams
  /\ sttConfig = SttProduction
  /\ juryConfig = JuryProduction
  /\ others = {}
  /\ triggerLimit = 1
  /\ stPathKind = "url"
  /\ scoreIn = <<>>
  /\ refOriginals = {ReferencePathFile}
  /\ syncOutcomes = ClearSync
  /\ gpuConsumers = {PoolWorker}
  /\ gpuOf = [w \in {HeavyWorker, PoolWorker} |-> w]
  /\ serviceOutcomes = {TRUE}
  /\ keepLog = FALSE
  /\ pollLimit = MaxPolls

StreamSpecNext == ClientNext \/ AnaRunNext \/ AnaFailNext \/ StreamNext

StreamSpec == InitStream /\ [][StreamSpecNext]_vars

\* --- one run with a reference never seen before and no inference step
\* --- failing, the stream recorded from its first event on
InitScenario ==
  /\ Started({"pending"})
  /\ cacheStems = {}
  /\ cachePitch = "absent"
  /\ uploadOutcomes = {TRUE}
  /\ threadTimes = QuickThread
  /\ outputBase = OUTPUT_BASE
  /\ pitchParams = CallerParams
  /\ sttConfig = SttProduction
  /\ juryConfig = JuryProduction
  /\ others = {}
  /\ triggerLimit = 1
  /\ stPathKind = "url"
  /\ scoreIn = <<>>
  /\ refOriginals = {ReferencePathFile}
  /\ syncOutcomes = ClearSync
  /\ gpuConsumers = {PoolWorker}
  /\ gpuOf = [w \in {HeavyWorker, PoolWorker} |-> w]
  /\ serviceOutcomes = {TRUE}
  /\ keepLog = TRUE
  /\ pollLimit = ScenarioPolls

ScenarioNext == ClientNext \/ PrepColdNext \/ AnaRunNext \/ StreamNext

ScenarioSpec == InitScenario /\ [][ScenarioNext]_vars

\* --- a client that drops its stream and later asks for the results
CancelNext ==
  \/ ClientNext \/ AnaRunNext \/ StreamNext \/ SseDisconnect
  \/ (ssePc = "cancelled" /\ ResultsNext)

CancelSpec == InitStream /\ [][CancelNext]_vars

\* --- prepare_reference run twice for one session and one reference (the
\* --- second run scheduled by set_fallback_source), over any cache content
InitPrep ==
  /\ Started({"pending"})
  /\ cacheStems \in SUBSET Stems
  /\ cachePitch \in {"absent", "valid", "corrupt"}
  /\ uploadOutcomes = BOOLEAN
  /\ threadTimes = QuickThread
  /\ outputBase = OUTPUT_BASE
  /\ pitchParams = CallerParams
  /\ sttConfig = SttProduction
  /\ juryConfig = JuryProduction
  /\ others = {}
  /\ triggerLimit = 1
  /\ stPathKind = "url"
  /\ scoreIn = <<>>
  /\ refOriginals = {ReferencePathFile}
  /\ syncOutcomes = ClearSync
  /\ gpuConsumers = {PoolWorker}
  /\ gpuOf = [w \in {HeavyWorker, PoolWorker} |-> w]
  /\ serviceOutcomes = {TRUE}
  /\ keepLog = FALSE
  /\ pollLimit = MaxPolls

PrepSpecNext == BgMarkReady \/ BgSendTask \/ BgFail \/ SetFallbackSource \/ PrepNext

PrepSpec == InitPrep /\ [][PrepSpecNext]_vars

\* --- analyze_performance alone, over any content of the pitch cache, with
\* --- threads of any running time and external services that may fail
InitPhase ==
  /\ Started({"pending"})
  /\ cacheStems = {}
  /\ cachePitch \in {"absent", "valid", "corrupt"}
  /\ uploadOutcomes = BOOLEAN
  /\ threadTimes = ThreadTimes
  /\ outputBase \in {OUTPUT_BASE, TEMP_BASE}
  /\ pitchParams = CallerParams
  /\ sttConfig = SttProduction
  /\ juryConfig = JuryProduction
  /\ others = {}
  /\ triggerLimit = 1
  /\ stPathKind = "url"
  /\ scoreIn = <<>>
  /\ refOriginals = {ReferencePathFile}
  /\ syncOutcomes = ClearSync
  /\ gpuConsumers = {PoolWorker}
  /\ gpuOf = [w \in {HeavyWorker, PoolWorker} |-> w]
  /\ serviceOutcomes = BOOLEAN
  /\ keepLog = FALSE
  /\ pollLimit = MaxPolls

PhaseSpecNext == ClientNext \/ AnaRunNext \/ AnaFailNext

PhaseSpec == InitPhase /\ [][PhaseSpecNext]_vars

\* --- both tasks of one session on the workers of the task routes, the
\* --- heavy worker a fallback consumer of the gpu queue, every binding of
\* --- the workers' DEMUCS_DEVICE to a physical GPU
InitGpu ==
  /\ Started({"pending"})
  /\ cacheStems \in {{}, Stems}
  /\ cachePitch = "absent"
  /\ uploadOutcomes = {TRUE}
  /\ threadTimes = QuickThread
  /\ serviceOutcomes = {TRUE}
  /\ outputBase = OUTPUT_BASE
  /\ pitchParams = CallerParams
  /\ sttConfig = SttProduction
  /\ juryConfig = JuryProduction
  /\ others = {}
  /\ triggerLimit = 1
  /\ stPathKind = "url"
  /\ scoreIn = <<>>
  /\ refOriginals = {ReferencePathFile}
  /\ syncOutcomes = ClearSync
  /\ gpuConsumers = {HeavyWorker, PoolWorker}
  /\ gpuOf \in [{HeavyWorker, PoolWorker} -> {"GPU 1", "GPU 2"}]
  /\ keepLog = FALSE
  /\ pollLimit = MaxPolls

GpuSpecNext == ClientNext \/ PrepNext \/ AnaRunNext \/ AnaFailNext

GpuSpec == InitGpu /\ [][GpuSpecNext]_vars

\* --- both tasks with the extractor as pitch_analysis.py declares it: the
\* --- steps that need a call of do_extract_pitch to return cannot happen
InitExtractor ==
  /\ Started({"pending"})
  /\ cacheStems \in {{}, Stems}
  /\ cachePitch \in {"absent", "valid"}
  /\ uploadOutcomes = BOOLEAN
  /\ threadTimes = ThreadTimes
  /\ serviceOutcomes = {TRUE}
  /\ outputBase = OUTPUT_BASE
  /\ pitchParams = DeclaredParams
  /\ sttConfig = SttProduction
  /\ juryConfig = JuryProduction
  /\ others = {}
  /\ triggerLimit = 1
  /\ stPathKind = "url"
  /\ scoreIn = <<>>
  /\ refOriginals = {ReferencePathFile}
  /\ syncOutcomes = ClearSync
  /\ gpuConsumers = {PoolWorker}
  /\ gpuOf = [w \in {HeavyWorker, PoolWorker} |-> w]
  /\ keepLog = FALSE
  /\ pollLimit = MaxPolls

ExtractorNext ==
  \/ ClientNext \/ PrepNext
  \/ AnaPickup \/ AnaStep \/ AnaFanOut \/ ThreadUploadNotify \/ ThreadUploadRaise
  \/ AnaFailNext

ExtractorSpec == InitExtractor /\ [][ExtractorNext]_vars

\* --- analyze_performance over every record thread E can return
InitSync ==
  /\ Started({"pending"})
  /\ cacheStems = {}
  /\ cachePitch \in {"absent", "valid"}
  /\ uploadOutcomes = {TRUE}
  /\ threadTimes = QuickThread
  /\ serviceOutcomes = {TRUE}
  /\ outputBase = OUTPUT_BASE
  /\ pitchParams = CallerParams
  /\ sttConfig = SttProduction
  /\ juryConfig = JuryProduction
  /\ others = {}
  /\ triggerLimit = 1
  /\ stPathKind = "url"
  /\ scoreIn = <<>>
  /\ refOriginals = {ReferencePathFile}
  /\ syncOutcomes = SyncRecords
  /\ gpuConsumers = {PoolWorker}
  /\ gpuOf = [w \in {HeavyWorker, PoolWorker} |-> w]
  /\ keepLog = FALSE
  /\ pollLimit = MaxPolls

SyncSpec == InitSync /\ [][PhaseSpecNext]_vars

\* --- a session over the hours after start_session: the requests of the
\* --- client and analyze_performance, with time passing between them
InitLife ==
  /\ Started({"pending"})
  /\ cacheStems = {}
  /\ cachePitch \in {"absent", "valid"}
  /\ uploadOutcomes = {TRUE}
  /\ threadTimes = QuickThread
  /\ serviceOutcomes = {TRUE}
  /\ outputBase = OUTPUT_BASE
  /\ pitchParams = CallerParams
  /\ sttConfig = SttProduction
  /\ juryConfig = JuryProduction
  /\ others = {}
  /\ triggerLimit = 1
  /\ stPathKind = "url"
  /\ scoreIn = <<>>
  /\ refOriginals = {ReferencePathFile}
  /\ syncOutcomes = ClearSync
  /\ gpuConsumers = {PoolWorker}
  /\ gpuOf = [w \in {HeavyWorker, PoolWorker} |-> w]
  /\ keepLog = FALSE
  /\ pollLimit = MaxPolls

LifeNext == ClientNext \/ AnaRunNext \/ AnaFailNext \/ Elapse

LifeSpec == InitLife /\ [][LifeNext]_vars

\* ReaperSpec: a session from start to the end of its record, other
\* sessions beside it, and the hourly run of cleanup_session_files.
InitReaper ==
  /\ Started({"pending"})
  /\ cacheStems = {}
  /\ cachePitch \in {"absent", "valid"}
  /\ uploadOutcomes = {TRUE}
  /\ threadTimes = QuickThread
  /\ serviceOutcomes = {TRUE}
  /\ outputBase = OUTPUT_BASE
  /\ pitchParams = CallerParams
  /\ sttConfig = SttProduction
  /\ juryConfig = JuryProduction
  /\ others \in SUBSET OtherSessions
  /\ triggerLimit = 1
  /\ stPathKind = "url"
  /\ scoreIn = <<>>
  /\ refOriginals = {ReferencePathFile}
  /\ syncOutcomes = ClearSync
  /\ gpuConsumers = {PoolWorker}
  /\ gpuOf = [w \in {HeavyWorker, PoolWorker} |-> w]
  /\ keepLog = FALSE
  /\ pollLimit = MaxPolls

ReaperNext == LifeNext \/ Reaper

\* StorageSpec: one worker process that runs analyze_performance as its
\* first task, for a user recording given as a storage URL or, as
\* _resolve_audio allows, as a local path.
InitStorage ==
  /\ Started({"ready"})
  /\ cacheStems = {}
  /\ cachePitch = "valid"
  /\ uploadOutcomes = {TRUE}
  /\ threadTimes = QuickThread
  /\ serviceOutcomes = {TRUE}
  /\ outputBase = OUTPUT_BASE
  /\ pitchParams = CallerParams
  /\ sttConfig = SttProduction
  /\ juryConfig = JuryProduction
  /\ others = {}
  /\ triggerLimit = 1
  /\ stPathKind \in {"url", "local"}
  /\ scoreIn = <<>>
  /\ refOriginals = {ReferencePathFile}
  /\ syncOutcomes = ClearSync
  /\ gpuConsumers = {PoolWorker}
  /\ gpuOf = [w \in {HeavyWorker, PoolWorker} |-> w]
  /\ keepLog = FALSE
  /\ pollLimit = MaxPolls

StorageSpec == InitStorage /\ [][StorageNext]_vars

\* ScoreSpec: do_generate_feedback for every triple of accuracies.
InitScore ==
  /\ Started({"ready"})
  /\ cacheStems = {}
  /\ cachePitch = "valid"
  /\ uploadOutcomes = {TRUE}
  /\ threadTimes = QuickThread
  /\ serviceOutcomes = {TRUE}
  /\ outputBase = OUTPUT_BASE
  /\ pitchParams = CallerParams
  /\ sttConfig = SttProduction
  /\ juryConfig = JuryProduction
  /\ others = {}
  /\ triggerLimit = 1
  /\ stPathKind = "local"
  /\ scoreIn \in ScoreInputs \X ScoreInputs \X ScoreInputs
  /\ refOriginals = {ReferencePathFile}
  /\ syncOutcomes = ClearSync
  /\ gpuConsumers = {PoolWorker}
  /\ gpuOf = [w \in {HeavyWorker, PoolWorker} |-> w]
  /\ keepLog = FALSE
  /\ pollLimit = MaxPolls

ScoreSpec == InitScore /\ [][Score]_vars

\* RefSpec: a song that is prepared for the first time; the store holds
\* neither its stems nor its original, and uploads can fail.
InitRef ==
  /\ Started({"pending"})
  /\ cacheStems = {}
  /\ cachePitch = "absent"
  /\ uploadOutcomes = BOOLEAN
  /\ threadTimes = QuickThread
  /\ serviceOutcomes = {TRUE}
  /\ outputBase = OUTPUT_BASE
  /\ pitchParams = CallerParams
  /\ sttConfig = SttProduction
  /\ juryConfig = JuryProduction
  /\ others = {}
  /\ triggerLimit = 1
  /\ stPathKind = "url"
  /\ scoreIn = <<>>
  /\ refOriginals = {}
  /\ syncOutcomes = ClearSync
  /\ gpuConsumers = {HeavyWorker, PoolWorker}
  /\ gpuOf = [w \in {HeavyWorker, PoolWorker} |-> w]
  /\ keepLog = FALSE
  /\ pollLimit = MaxPolls

RefNext == ClientNext \/ PrepColdNext \/ PrepFail \/ AnaRunNext \/ AnaFailNext

RefSpec == InitRef /\ [][RefNext]_vars

\* AnalyzeSpec: a client that posts /analyze a second time after the
\* first request was answered.
InitAnalyze ==
  /\ Started({"pending"})
  /\ cacheStems = Stems
  /\ cachePitch \in {"absent", "valid"}
  /\ uploadOutcomes = {TRUE}
  /\ threadTimes = QuickThread
  /\ serviceOutcomes = {TRUE}
  /\ outputBase = OUTPUT_BASE
  /\ pitchParams = CallerParams
  /\ sttConfig = SttProduction
  /\ juryConfig = JuryProduction
  /\ others = {}
  /\ triggerLimit = 2
  /\ stPathKind = "url"
  /\ scoreIn = <<>>
  /\ refOriginals = {ReferencePathFile}
  /\ syncOutcomes = ClearSync
  /\ gpuConsumers = {PoolWorker}
  /\ gpuOf = [w \in {HeavyWorker, PoolWorker} |-> w]
  /\ keepLog = FALSE
  /\ pollLimit = MaxPolls

AnalyzeNext == ClientNext \/ AnaRunNext \/ AnaFailNext

AnalyzeSpec == InitAnalyze /\ [][AnalyzeNext]_vars

\* UploadSpec: LifeSpec with a client that also posts its recording
\* before the reference is ready and after the record has expired.
UploadNext == LifeNext \/ UploadReject

UploadSpec == InitLife /\ [][UploadNext]_vars

ReaperSpec == InitReaper /\ [][ReaperNext]_vars

\* The caches under their operations, the on-demand cleanup, the periodic
\* cleanup and the passing of time; the steps of the session are left out.
InitCache ==
  /\ Started({"pending"})
  /\ cacheStems = {}
  /\ cachePitch = "absent"
  /\ uploadOutcomes = {TRUE}
  /\ threadTimes = QuickThread
  /\ serviceOutcomes = {TRUE}
  /\ outputBase = OUTPUT_BASE
  /\ pitchParams = CallerParams
  /\ sttConfig = SttProduction
  /\ juryConfig = JuryProduction
  /\ others = {}
  /\ triggerLimit = 1
  /\ stPathKind = "url"
  /\ scoreIn = <<>>
  /\ refOriginals = {ReferencePathFile}
  /\ syncOutcomes = ClearSync
  /\ gpuConsumers = {PoolWorker}
  /\ gpuOf = [w \in {HeavyWorker, PoolWorker} |-> w]
  /\ keepLog = FALSE
  /\ pollLimit = MaxPolls

CacheSpec == InitCache /\ [][CacheNext]_vars

\* One transcription request under every configuration of the fallback
\* tiers, each call to a tier answering or failing.
InitStt ==
  /\ Started({"ready"})
  /\ cacheStems = {}
  /\ cachePitch = "absent"
  /\ uploadOutcomes = {TRUE}
  /\ threadTimes = QuickThread
  /\ serviceOutcomes = BOOLEAN
  /\ outputBase = OUTPUT_BASE
  /\ pitchParams = CallerParams
  /\ sttConfig \in SttConfigs
  /\ juryConfig = JuryProduction
  /\ others = {}
  /\ triggerLimit = 1
  /\ stPathKind = "url"
  /\ scoreIn = <<>>
  /\ refOriginals = {ReferencePathFile}
  /\ syncOutcomes = ClearSync
  /\ gpuConsumers = {PoolWorker}
  /\ gpuOf = [w \in {HeavyWorker, PoolWorker} |-> w]
  /\ keepLog = FALSE
  /\ pollLimit = MaxPolls

SttSpec == InitStt /\ [][SttNext]_vars

\* One call of generate_jury_comments under every configuration, each POST
\* answering or failing; the event loop runs every coroutine that can run.
InitJury ==
  /\ Started({"ready"})
  /\ cacheStems = {}
  /\ cachePitch = "absent"
  /\ uploadOutcomes = {TRUE}
  /\ threadTimes = QuickThread
  /\ serviceOutcomes = {TRUE}
  /\ outputBase = OUTPUT_BASE
  /\ pitchParams = CallerParams
  /\ sttConfig = SttProduction
  /\ juryConfig \in JuryConfigs
  /\ others = {}
  /\ triggerLimit = 1
  /\ stPathKind = "url"
  /\ scoreIn = <<>>
  /\ refOriginals = {ReferencePathFile}
  /\ syncOutcomes = ClearSync
  /\ gpuConsumers = {PoolWorker}
  /\ gpuOf = [w \in {HeavyWorker, PoolWorker} |-> w]
  /\ keepLog = FALSE
  /\ pollLimit = MaxPolls

JurySpec == InitJury /\ [][JuryNext]_vars /\ WF_vars(JuryNext)

\* ------------------------------------------------------------------------
\* Properties
\* ------------------------------------------------------------------------
HasEvent(seq, name) == \E i \in DOMAIN seq : seq[i].name = name

CountEvent(seq, name) == Cardinality({i \in DOMAIN seq : seq[i].name = name})

\* C1: the session-store merge is atomic.  When two update_session calls are
\* in flight on the same existing session and both have been executed, the
\* record is the prior record overlaid with both patches: a field named by the
\* call serialised last has that call's value, a field named only by the
\* other call has the other call's value, every other field is as it was.
C1_MergeAtomic ==
  (Len(applied) = 2 /\ live) =>
    LET p1 == mPatch[applied[1]]
        p2 == mPatch[applied[2]]
    IN \A k \in Fields :
         session[k] = IF k \in DOMAIN p2 THEN p2[k]
                      ELSE IF k \in DOMAIN p1 THEN p1[k]
                      ELSE prior[k]

\* two calls that both name `status` have run on a record that holds a task id
C1_Witness ==
  /\ Len(applied) = 2
  /\ live
  /\ mPatch[applied[1]] = [status |-> "analyzing"]
  /\ mPatch[applied[2]] = [status |-> "completed", results |-> "bundle"]
  /\ prior["analysis_task_id"] = "task"
  /\ session["status"] = "completed"
  /\ session["analysis_task_id"] = "task"

\* the update dict of the error handler of analyze_performance
PipelineErrorPatch(exc) == [status |-> "error", error |-> ErrorSummary(exc)]

\* C2: every mutation of an existing session record is an atomic merge: each
\* step that changes the record leaves it equal to the record as it was just
\* before the step, overlaid with the update dict of one of the program's
\* writers (no field outside that dict changes).
C2_EveryMutationIsMerge ==
  [][session' # session =>
       \E p \in ProgramPatches \cup {PipelineErrorPatch(e) : e \in ExcNames} :
         session' = Overlay(session, p)]_vars

\* the stage of the session that a record shows
Stage(rec) ==
  CASE rec["status"] = "completed"          -> "completed"
    [] rec["status"] = "error"              -> "error"
    [] rec["status"] = "analyzing"          -> "analysing"
    [] rec["reference_status"] = "ready"    -> "reference_ready"
    [] rec["reference_status"] = "pending"  -> "reference_pending"
    [] OTHER                                -> "created"

Rank(stage) ==
  CASE stage = "created"            -> 1
    [] stage = "reference_pending"  -> 2
    [] stage = "reference_ready"    -> 3
    [] stage = "analysing"          -> 4
    [] OTHER                        -> 5

\* a record whose reference lookup has not failed: its stage is on the path
\* created, reference_pending, reference_ready, analysing, completed | error
OnPath(rec) ==
  rec["status"] \in {"completed", "error", "analyzing"}
    \/ rec["reference_status"] \in {"pending", "ready"}

\* C3: the session only moves forward along created, reference_pending,
\* reference_ready, analysing, completed | error: no step takes the record
\* to a stage of lower rank, and a record that is completed or in error
\* keeps that stage.
C3_StageMonotone ==
  [][(OnPath(session) /\ OnPath(session')) =>
       /\ Rank(Stage(session')) >= Rank(Stage(session))
       /\ Stage(session) \in {"completed", "error"} => Stage(session') = Stage(session)]_vars

\* C4: when analyze_performance fails, the error handler leaves status =
\* "error" and the error summary of the exception in the session record in
\* the step that brings the task to its re-raise, and the task runner records
\* the failure only from that re-raise.
C4_ErrorMarkedBeforeReraise ==
  [][/\ (anaPc # "reraise" /\ anaPc' = "reraise") =>
          /\ anaPc \in {"except", "err_write"}
          /\ session'["status"] = "error"
          /\ session'["error"] = ErrorSummary(anaExc)
     /\ (anaPc # "failed" /\ anaPc' = "failed") =>
          /\ anaPc = "reraise"
          /\ taskState' = "FAILURE"
          /\ taskInfo' = anaExc
     /\ (anaPc # "except" /\ anaPc' = "except") => anaExc' \in ExcNames
     /\ anaPc = "except" => anaPc' \in {"except", "err_write", "reraise"}
     /\ anaPc = "err_write" => anaPc' \in {"err_write", "reraise"}]_vars

\* thread B has failed and the handler has marked the record
C4_Witness ==
  /\ anaPc = "reraise"
  /\ anaExc = "RefSeparationError"
  /\ session["status"] = "error"
  /\ session["error"] = ErrorSummary("RefSeparationError")
  /\ taskState = "PROGRESS"

\* C5: when prepare_reference has failed, the session record is marked in
\* error.
C5_PrepareFailureMarked ==
  prepPc = "failed" =>
    (session["status"] = "error" \/ session["reference_status"] = "error")

\* C6: once a ready key has appeared, the open stream reports it, once per
\* appearance: when an iteration that began with the reference key present
\* has ended, the stream has yielded tracks_ready at least once and at most
\* as often as the key was written, and likewise user_tracks_ready for the
\* user key.
C6_ReadyKeysReported ==
  ssePc \in {"sleep", "persist", "closed"} =>
    /\ keysAtPoll[1] > 0 => CountEvent(events, "tracks_ready") \in 1..keysAtPoll[1]
    /\ keysAtPoll[2] > 0 => CountEvent(events, "user_tracks_ready") \in 1..keysAtPoll[2]

\* analyze_performance is between its pick-up and its return
Running(pc) ==
  pc \in {"started", "loading_model", "separating_user", "separating_user_done",
          "analyzing_parallel", "sync_and_pitch_ref", "crepe_ref_extract", "analysis_done",
          "calculating_scores", "jury_deliberation", "jury_voting", "completed"}

RECURSIVE Embeds(_, _)
Embeds(sub, seq) ==
  IF sub = <<>> THEN TRUE
  ELSE IF seq = <<>> THEN FALSE
  ELSE IF Head(seq) = Head(sub) THEN Embeds(Tail(sub), Tail(seq))
  ELSE Embeds(sub, Tail(seq))

\* the stages of a successful run that a stream open from the start sees
ObservedRun ==
  <<Ev("connected", NoVal), Ev("session_status", "pending"),
    Ev("session_status", "ready"), Ev("analysis_progress", "separating_user"),
    Ev("analysis_progress", "jury_deliberation"), Ev("analysis_complete", "bundle")>>

ExpectedRun ==
  <<Ev("connected", NoVal), Ev("session_status", "pending"),
    Ev("session_status", "ready"), Ev("tracks_ready", NoVal),
    Ev("analysis_progress", "separating_user"), Ev("user_tracks_ready", NoVal),
    Ev("analysis_progress", "jury_deliberation"), Ev("analysis_complete", "bundle")>>

Terminal(e) == e.name \in {"analysis_complete", "analysis_error"}

CountTerminal(seq) == Cardinality({i \in DOMAIN seq : Terminal(seq[i])})

\* C9: when the stream observes the task in a terminal state it yields
\* exactly one terminal event, analysis_complete with the result or
\* analysis_error with the error string, as the last event of that
\* iteration, and goes on to its session update and its return; from then
\* on it yields nothing.  A terminal event is yielded in no other case.
C9_OneTerminalEventThenClose ==
  /\ [](lastStatus \in {"SUCCESS", "FAILURE"} =>
          /\ ssePc \in {"persist", "closed"}
          /\ CountTerminal(iterEvents) = 1
          /\ iterEvents[Len(iterEvents)] =
               IF lastStatus = "SUCCESS"
                 THEN Ev("analysis_complete", "bundle")
                 ELSE Ev("analysis_error", ExcMessage(anaExc))
          /\ taskState = lastStatus)
  /\ [](CountTerminal(iterEvents) > 0 => lastStatus \in {"SUCCESS", "FAILURE"})
  /\ [][(ssePc \in {"persist", "closed"}) =>
          /\ ssePc' \in {"persist", "closed"}
          /\ iterEvents' = iterEvents
          /\ events' = events]_vars

\* the stream has observed the failure of thread C, yielded analysis_error
\* and returned
C9_Witness ==
  /\ ssePc = "closed"
  /\ lastStatus = "FAILURE"
  /\ iterEvents # <<>>
  /\ iterEvents[Len(iterEvents)] = Ev("analysis_error", ExcMessage("UserPitchError"))
  /\ session["status"] = "error"

\* what an event reports differs between this iteration and the previous one
Justified(e) ==
  CASE e.name \in {"connected", "heartbeat", "timeout"} -> TRUE
    [] e.name = "session_status" -> obs.ref # prevObs.ref
    [] e.name = "tracks_ready" -> obs.tracks # prevObs.tracks
    [] e.name = "analysis_progress" ->
         <<obs.task, obs.status, obs.info>> # <<prevObs.task, prevObs.status, prevObs.info>>
    [] e.name \in {"analysis_complete", "analysis_error"} ->
         <<obs.task, obs.status>> # <<prevObs.task, prevObs.status>>
    [] OTHER -> obs # prevObs

Exempt(e) == e.name \in {"connected", "heartbeat", "timeout"}

\* C10: apart from connected, heartbeat and timeout, the stream yields an
\* event in an iteration only if what the event reports (reference status,
\* tracks-ready field, task status and progress) differs from what the
\* previous iteration read; an iteration that has read the same as the
\* previous one has yielded no such event.
C10_EventsOnlyOnChange ==
  /\ \A i \in DOMAIN iterEvents : Justified(iterEvents[i])
  /\ (ssePc \in {"sleep", "persist", "closed"} /\ obs = prevObs) =>
       \A i \in DOMAIN iterEvents : Exempt(iterEvents[i])

\* two consecutive iterations have read the same progress of the task and
\* the second one has yielded nothing but a heartbeat
C10_Witness ==
  /\ ssePc = "sleep"
  /\ elapsed > 0
  /\ obs = prevObs
  /\ obs.status = "PROGRESS"
  /\ obs.info = "separating_user"
  /\ \A i \in DOMAIN iterEvents : iterEvents[i].name = "heartbeat"

\* C11: when the client disconnects, the generator terminates at once: the
\* disconnection itself ends it, no sleep is completed and no poll is begun
\* first, and from then on it reads neither the session nor the task, yields
\* nothing and writes nothing to the session.
C11_DisconnectEndsPolling ==
  /\ [](dropAt # NoVal => ssePc = "cancelled")
  /\ [][(dropAt = NoVal /\ dropAt' # NoVal) =>
          /\ ssePc \in {"poll", "persist", "sleep"}
          /\ ssePc' = "cancelled"
          /\ elapsed' = elapsed
          /\ obs' = obs]_vars
  /\ [][(dropAt # NoVal) =>
          /\ ssePc' = ssePc
          /\ elapsed' = elapsed
          /\ <<obs, prevObs, keysAtPoll>>' = <<obs, prevObs, keysAtPoll>>
          /\ <<iterEvents, events>>' = <<iterEvents, events>>
          /\ <<lastRef, lastStatus, lastStep, lastTracks>>' =
               <<lastRef, lastStatus, lastStep, lastTracks>>]_vars

\* the client left during the sleep after a poll that saw the first step; the
\* task went on to its end and the generator has not looked at it again
C11_Witness ==
  /\ ssePc = "cancelled"
  /\ dropAt = "loading_model"
  /\ obs.info = "loading_model"
  /\ anaPc = "done"
  /\ taskState = "SUCCESS"
  /\ lastStatus = "PROGRESS"

\* C12: a stream on which no terminal event occurs yields timeout when
\* elapsed reaches MAX_DURATION and closes: it begins no iteration at or
\* beyond MAX_DURATION, the only step it takes there is the one that yields
\* timeout as its last event and closes it, and elapsed never exceeds
\* MAX_DURATION.
C12_TimeoutThenClose ==
  /\ [](elapsed <= pollLimit)
  /\ []((elapsed = pollLimit /\ ssePc = "closed" /\ lastStatus \notin {"SUCCESS", "FAILURE"}) =>
          (iterEvents # <<>> /\ iterEvents[Len(iterEvents)] = Ev("timeout", NoVal)))
  /\ [][(elapsed >= pollLimit /\ ssePc = "poll" /\ ssePc' # "poll") =>
          /\ ssePc' = "closed"
          /\ iterEvents' = Append(iterEvents, Ev("timeout", NoVal))
          /\ obs' = obs]_vars
  /\ [][(CountEvent(iterEvents, "timeout") > 0) =>
          (ssePc' = "closed" /\ iterEvents' = iterEvents /\ obs' = obs)]_vars

\* the task was still running when the stream reached MAX_DURATION
C12_Witness ==
  /\ ssePc = "closed"
  /\ elapsed = pollLimit
  /\ lastStatus = "PROGRESS"
  /\ iterEvents # <<>>
  /\ iterEvents[Len(iterEvents)] = Ev("timeout", NoVal)

\* C13: over the two runs of prepare_reference for one reference, source
\* separation is executed at most once and pitch extraction at most once.
C13_ComputedAtMostOnce ==
  prepRuns <= 2 => (sepCount <= 1 /\ pitchCount <= 1)

\* the three path strings of a returned dict
ReturnedPaths(ret) ==
  {ret.reference_vocals_url, ret.reference_instrumentals_url, ret.reference_pitch_path}

\* C14: any two runs of prepare_reference for the same reference that return
\* have returned the same set of path strings.
C14_SamePathsReturned ==
  \A i \in DOMAIN prepRet : \A j \in DOMAIN prepRet :
    ReturnedPaths(prepRet[i]) = ReturnedPaths(prepRet[j])

\* C15: the cache check sends a run to the cached download, skipping source
\* acquisition and separation, exactly when both stems are in the cache; with
\* a stem missing the run acquires the source and separates.
C15_SkipOnlyWithBothStems ==
  [][(prepPc = "queued" /\ prepPc' # "queued") =>
       /\ (cacheStems = Stems => prepPc' = "download_cached")
       /\ (cacheStems # Stems => prepPc' = "separate")]_vars

\* C16: the tracks-ready key is recorded for successful runs only: until a
\* run has completed its pitch step, and after a run has failed, the key has
\* been written exactly as often as a run has returned.
C16_KeyOnlyOnSuccess ==
  prepPc \in {"queued", "download_cached", "separate", "notify", "pitch", "failed"} =>
    refKey = Len(prepRet)

\* C17: a corrupt cached pitch artifact is never what a run returns as its
\* pitch result: a run that finds it recomputes the pitch and leaves a valid
\* artifact or none in the cache.
C17_CorruptPitchNeverReturned ==
  /\ [](\A i \in DOMAIN prepRet : prepRet[i].content # "corrupt")
  /\ [][(prepPc = "pitch" /\ cachePitch = "corrupt" /\ prepPc' = "done") =>
          (pitchCount' = pitchCount + 1 /\ cachePitch' # "corrupt")]_vars

C19_PhaseTwoTimeouts ==
  [][(anaPc = "analyzing_parallel" /\ anaPc' # "analyzing_parallel") =>
       /\ waited' <= CRITICAL_TIMEOUT
       /\ (thrDur["B"] > CRITICAL_TIMEOUT \/ thrDur["C"] > CRITICAL_TIMEOUT) =>
            anaPc' = "except"
       /\ (anaPc' = "sync_and_pitch_ref" /\ thrDur["D"] > NONCRITICAL_TIMEOUT) =>
            (transcription' = "empty" /\ lyricsSource' = "none")]_vars

WorkingDirs ==
  TempDirs \cup {StemsDir(outputBase, SessionId \o "_user"),
                 StemsDir(outputBase, SessionId \o "_ref")}

\* C21: when analyze_performance has returned or failed, none of the working
\* directories of the run exists any more, the directories of the separated
\* stems included.
C21_WorkingDirsRemoved ==
  anaPc \in {"done", "failed"} => disk \cap WorkingDirs = {}

\* prepare_reference is running do_separate_audio
PrepSeparating == prepPc = "separate"

\* analyze_performance is running do_separate_audio: on the user recording,
\* or in thread B on a reference that is not cached
AnaSeparating ==
  \/ anaPc = "separating_user"
  \/ (anaPc = "analyzing_parallel" /\ ~DemucsCached(cacheStems))

\* C22: prepare_reference and analyze_performance never run source
\* separation at the same time on the same physical GPU.
C22_OneSeparationPerGpu ==
  (PrepSeparating /\ AnaSeparating) => gpuOf[HeavyWorker] # gpuOf[anaWorker]

\* C23: every call of the pitch extractor made by thread C, thread F or
\* prepare_reference is accepted by the extractor and runs the model the
\* caller asked for: the full model for the user vocals in thread C, the tiny
\* model for the reference vocals in thread F and in prepare_reference.
C23_RequestedModeHonoured ==
  \A c \in pitchCalls :
    /\ c.status = "completed"
    /\ c.model = RequestedModel(c.site)

C25_MergeKeepsTtl ==
  [][(live /\ applied' # applied) =>
       /\ (RedisTTL(live, ttl) # -1) => RedisTTL(live', ttl') <= RedisTTL(live, ttl)
       /\ (ttl' = FALLBACK_TTL /\ ttl # FALLBACK_TTL) => RedisTTL(live, ttl) = -1]_vars

\* C26: no session record is readable more than 3 hours after start_session
\* created it, whatever merges and error marks were written in between.
C26_GoneAfterThreeHours ==
  live => age <= SESSION_TTL

\* C27: a get never returns an entry whose expiry time has passed; once an
\* entry is past expiry every get of its key reports it as absent, whichever
\* tier serves the lookup.
C27_NoEntryPastExpiry ==
  lastGet.entry.present =>
    \/ lastGet.entry.exp = Never
    \/ lastGet.at <= lastGet.entry.exp

\* C28: after a cold-tier upsert of a payload under a key, a hot-tier lookup
\* of the key returns that payload; the hot tier never serves a payload older
\* than the latest cold-tier upsert.
C28_HotServesLatestUpsert ==
  (lastGet.tier = "hot" /\ lastGet.coldVer # 0) => lastGet.entry.ver >= lastGet.coldVer

\* C29: if set(f, v) succeeds, every get(f) issued while the entry is within
\* its TTL and before a later set or invalidate of f returns v.
C29_GetReturnsWhatWasSet ==
  (lastGet.expectVer # 0) =>
    /\ lastGet.entry.present
    /\ lastGet.entry.ver = lastGet.expectVer

\* C30: every run of the periodic cleanup invokes cleanup_expired of the
\* caches: after a run no cold-tier row past its expiry is left.
C30_ReaperSweepsExpired ==
  [][(reaperRuns' # reaperRuns) => \A c \in Classes : ~PastExpiry(cold'[c], now')]_vars

C32_ThreeJudgeRecords ==
  /\ [](juryOut # <<>> =>
          /\ Len(juryOut) = 3
          /\ \A i \in 1..3 :
               /\ juryOut[i].persona = JURY_PERSONAS[i]
               /\ juryOut[i].comment # ""
               /\ juryOut[i].vote \in {"yes", "no"})
  /\ [](\A p \in Personas :
          /\ juryCalls[p][1] <= 1 + MaxRetriesOf(1)
          /\ juryCalls[p][2] <= 1 + MaxRetriesOf(2)
          /\ (juryPc[p] = "done" /\ juryDraft[p].model = "heuristic" /\ juryConfig.key) =>
               /\ juryCalls[p][1] = 1 + MaxRetriesOf(1)
               /\ juryConfig.fallback => juryCalls[p][2] = 1 + MaxRetriesOf(2))
  /\ <>(juryOut # <<>>)

\* C32 witness: both LLM tiers failed on every attempt for every persona and
\* three heuristic records came back.
C32_Witness ==
  /\ juryOut # <<>>
  /\ juryConfig = JuryProduction
  /\ others = {}
  /\ triggerLimit = 1
  /\ stPathKind = "url"
  /\ scoreIn = <<>>
  /\ refOriginals = {ReferencePathFile}
  /\ \A i \in 1..3 : juryOut[i].model = "heuristic" /\ juryOut[i].comment # ""
  /\ \A p \in Personas : juryCalls[p][1] = 3 /\ juryCalls[p][2] = 2

\* ---------------------------------------------------------------------
\* C33: cleanup_session_files deletes only the six blob paths of a
\* session whose record was created more than 2 hours ago: every delete
\* request is for one of the six paths of the session it was made for,
\* that session is older than SESSION_MAX_AGE, and no request is for a
\* path under cache/.
C33_ReapsOnlyOldSessions ==
  \A r \in reaped :
    /\ r.path \in SessionStoragePaths(r.id)
    /\ r.path.root # "cache"
    /\ r.age > SESSION_MAX_AGE

\* what the code does keep: the six paths of the session, none under
\* cache/, and no session younger than SESSION_MAX_AGE
ReapFrame ==
  \A r \in reaped :
    /\ r.path \in SessionStoragePaths(r.id)
    /\ r.path.root # "cache"
    /\ r.age >= SESSION_MAX_AGE

\* ---------------------------------------------------------------------
\* C38: cleanup_session_files never deletes the blobs of a session while
\* analyze_performance is queued or running for it.
C38_NoReapInFlight == \A r \in reaped : ~r.inflight

C35_ScoreIsRounded ==
  scoreOut # <<>> =>
    /\ 100 * scoreOut[1] - Weighted(scoreIn) <= 50
    /\ Weighted(scoreIn) - 100 * scoreOut[1] <= 50

\* ---------------------------------------------------------------------
\* C36: upload_recording for an existing session whose reference_status
\* is not "ready" is answered with 400 and records nothing: the request
\* does not go on to the blob store and the session record stays as it
\* is.
C36_UploadRejectedUnlessReady ==
  [][(/\ live
      /\ session["reference_status"] # "ready"
      /\ upPc = "idle"
      /\ (upPc' # upPc \/ upResp' # upResp))
     => (upResp' = 400 /\ upPc' = "idle" /\ session' = session /\ upCount' = upCount)]_vars

\* a request was rejected with 400 and the record has no user recording
C36_Witness ==
  /\ upResp = 400
  /\ live
  /\ session["reference_status"] # "ready"
  /\ session["user_audio_path"] = NoVal

\* ---------------------------------------------------------------------
\* C37: when thread B of analyze_performance runs for a session whose
\* reference_status is "ready", its input is obtainable: both stems are
\* in cache/{youtube_id}/, or the store holds the original that
\* reference_path names.
C37_ReferenceObtainable ==
  (anaPc = "analyzing_parallel" /\ session["reference_status"] = "ready")
    => (cacheStems = Stems \/ ReferencePathFile \in refOriginals)

\* ---------------------------------------------------------------------
\* C39: at most one analysis job is sent for a session, and a second
\* request to start the analysis does not replace the recorded task id.
C39_OneAnalysisJob ==
  /\ anaJobs <= 1
  /\ session["analysis_task_id"] \in {NoVal, TaskId(1)}

\* ---------------------------------------------------------------------
\* C40: once invalidate has returned for a key and no set has followed,
\* neither tier holds an entry for the key, so that every get returns
\* absent; this also when a get was in progress during the invalidate:
\* its backfill of the hot tier does not survive.
C40_NoBackfillSurvives ==
  \A c \in Classes : invalidated[c] => (~hot[c].present /\ ~cold[c].present)

====
